---- MODULE Spec2Model ----
(***************************************************************************)
(* Passkey relying-party backend: the ceremony orchestration layer         *)
(* (WebAuthnService over KVStorage), the login/complete backend            *)
(* delegation, and the file-backed JSONStorage session store.              *)
(*                                                                         *)
(* Every handler is an async function: the code between two awaits runs    *)
(* without interruption and every await of a store or primitive call is a  *)
(* point where other requests run.  One action of the model is one such    *)
(* segment.  A request occupies a slot of `req` from its first store call  *)
(* to the moment its result has been handed back.                          *)
(***************************************************************************)
EXTENDS Integers, Sequences, FiniteSets, TLC

(***************************************************************************)
(* Bounds of the model.                                                    *)
(***************************************************************************)
MaxSessions == 1
MaxConcSessions == 2
MaxPasskeys == 1
MaxCounter == 2
MaxTime == 2
MaxOriginLen == 2
MaxUaLen == 2
MaxBegins == 2
MaxUpdates == 2

(***************************************************************************)
(* Program constants.  The clock counts in units of five minutes, the      *)
(* lifetime of a challenge: 5 * 60 * 1000 ms in expiresAt, 5 * 60 s as the *)
(* `ex` of the kv key.                                                     *)
(***************************************************************************)
ChallengeTTL == 1
KvSessionEx == 1

Users == {"u1", "u2"}
NoUser == ""
Usernames == {"a@b.com"}
DisplayNames == {"A"}
Platforms == {"web", "android", "ios"}
CredIds == {"c1", "c2"}
ReqIds == {"r1", "r2"}
RegBeginUsers == {"u1"}
AuthBeginUsers == {NoUser, "u1"}

Null == [null |-> TRUE]

(***************************************************************************)
(* Origins are strings; a string is modelled as the sequence of its        *)
(* tokens, so that startsWith is a real prefix test.  <<>> is the empty    *)
(* string, which JavaScript treats like null in `origin || this.origin`    *)
(* and in `platform !== 'web' && origin`.                                  *)
(***************************************************************************)
NoOrigin == <<>>
HttpPrefix == <<"http://">>
HttpsPrefix == <<"https://">>
AndroidPrefix == <<"android:", "apk-key-hash:">>
IosPrefix == <<"ios:", "bundle-id:">>
LocalHttp == <<"http://", "localhost:3000">>
LocalHttps == <<"https://", "localhost:3000">>
AndroidPlaceholder == <<"android:", "apk-key-hash:", "REPLACE_WITH_YOUR_ANDROID_APP_SIGNATURE_HASH">>
IosPlaceholder == <<"ios:", "bundle-id:", "REPLACE_WITH_YOUR_IOS_BUNDLE_ID">>
EvilOrigin == <<"http://", "evil.com">>
AndroidOrigin == <<"android:", "apk-key-hash:", "abc">>
IosOrigin == <<"ios:", "bundle-id:", "com.x.y">>

\* this.origin and this.allowedOrigins as the constructor sets them
ServiceOrigin == LocalHttp
AllowedOrigins == {LocalHttp, LocalHttps, AndroidPlaceholder, IosPlaceholder}

\* the origins a caller may pass to a completion operation
OriginInputs == {NoOrigin, EvilOrigin, AndroidOrigin}

StartsWith(s, p) == Len(s) >= Len(p) /\ SubSeq(s, 1, Len(p)) = p

\* String.prototype.toLowerCase on the platform names a caller may spell and on
\* the words of a user-agent
toLowerCase(s) ==
  CASE s = "Android" -> "android"
    [] s = "IOS" -> "ios"
    [] s = "Web" -> "web"
    [] s = "iPhone" -> "iphone"
    [] s = "iPad" -> "ipad"
    [] s = "iPod" -> "ipod"
    [] s = "Mozilla" -> "mozilla"
    [] OTHER -> s

\* an isValidOrigin that does not consult the allow-list
isValidOriginNoAllowList(origin, platform) ==
  CASE toLowerCase(platform) = "android" -> StartsWith(origin, AndroidPrefix)
    [] toLowerCase(platform) = "ios" -> StartsWith(origin, IosPrefix)
    [] toLowerCase(platform) = "web" ->
         StartsWith(origin, HttpPrefix) \/ StartsWith(origin, HttpsPrefix)
    [] OTHER -> FALSE

isValidOrigin(origin, platform) ==
  IF origin \in AllowedOrigins THEN TRUE
  ELSE CASE toLowerCase(platform) = "android" -> StartsWith(origin, AndroidPrefix)
         [] toLowerCase(platform) = "ios" -> StartsWith(origin, IosPrefix)
         [] toLowerCase(platform) = "web" ->
              StartsWith(origin, HttpPrefix) \/ StartsWith(origin, HttpsPrefix)
         [] OTHER -> FALSE

\* `let expectedOrigin = origin || this.origin`, then the mobile branch
OriginRejected(origin, platform) ==
  platform # "web" /\ origin # NoOrigin /\ ~isValidOrigin(origin, platform)

ResolveExpectedOrigin(origin, platform) ==
  IF origin # NoOrigin THEN origin ELSE ServiceOrigin

\* a transport list that may be absent: [present, list]
NoTransports == [present |-> FALSE, list |-> <<>>]
SomeTransports(l) == [present |-> TRUE, list |-> l]

\* `originalTransports || [...]`: an array is truthy, the empty one too, and is
\* returned as it is; null and undefined give the list of the platform
getTransportsForPlatform(originalTransports, platform) ==
  IF originalTransports.present THEN originalTransports.list
  ELSE CASE toLowerCase(platform) = "android" -> <<"internal", "hybrid", "nfc", "ble", "usb">>
         [] toLowerCase(platform) = "ios" -> <<"internal", "hybrid">>
         [] OTHER -> <<"internal", "hybrid", "usb", "nfc", "ble">>

\* a getTransportsForPlatform that always answers with the list of the platform
getTransportsForPlatformDefaultOnly(originalTransports, platform) ==
  CASE toLowerCase(platform) = "android" -> <<"internal", "hybrid", "nfc", "ble", "usb">>
    [] toLowerCase(platform) = "ios" -> <<"internal", "hybrid">>
    [] OTHER -> <<"internal", "hybrid", "usb", "nfc", "ble">>

\* a getAuthenticatorSelection that asks for a platform authenticator everywhere
getAuthenticatorSelectionAllPlatform(platform) ==
  [residentKey |-> "preferred", userVerification |-> "preferred",
   authenticatorAttachment |-> "platform", requireResidentKey |-> FALSE]

\* for web and by default the selection has no authenticatorAttachment
getAuthenticatorSelection(platform) ==
  CASE toLowerCase(platform) \in {"android", "ios"} ->
         [residentKey |-> "preferred", userVerification |-> "preferred",
          authenticatorAttachment |-> "platform", requireResidentKey |-> FALSE]
    [] OTHER ->
         [residentKey |-> "preferred", userVerification |-> "preferred",
          requireResidentKey |-> FALSE]

\* A user-agent is a string; it is modelled as the sequence of its words, and
\* ua.includes(word) looks for the word among them.
includes(ua, word) == \E i \in 1..Len(ua) : ua[i] = word

\* userAgent.toLowerCase()
LowerCased(userAgent) == [i \in 1..Len(userAgent) |-> toLowerCase(userAgent[i])]

\* a detectPlatform that looks at the user-agent first
detectPlatformAgentFirst(userAgent, explicitPlatform) ==
  LET ua == LowerCased(userAgent) IN
  IF includes(ua, "android") THEN "android"
  ELSE IF includes(ua, "iphone") \/ includes(ua, "ipad") \/ includes(ua, "ipod") THEN "ios"
  ELSE IF explicitPlatform # "" THEN toLowerCase(explicitPlatform)
  ELSE "web"

\* explicitPlatform is "" when none is given (null, undefined and '' are all falsy)
detectPlatform(userAgent, explicitPlatform) ==
  IF explicitPlatform # "" THEN toLowerCase(explicitPlatform)
  ELSE LET ua == LowerCased(userAgent) IN
       IF includes(ua, "android") THEN "android"
       ELSE IF includes(ua, "iphone") \/ includes(ua, "ipad") \/ includes(ua, "ipod") THEN "ios"
       ELSE "web"

VARIABLES
  wired,      \* the storage module under exercise: "kv" (the service) or "json"
  now,        \* the clock
  sessions,   \* kv keys sessions:<id>
  sessTtl,    \* kv expiry deadline of each session key
  passkeys,   \* kv keys passkeys:<id>
  users,      \* kv keys users:<id>
  nextSid,    \* uuidv4 for sessions: the next unused id
  nextPid,    \* uuidv4 for passkeys: the next unused id
  req,        \* the requests in flight
  userCredentials, \* auth-config.json: the userIds with backend sign-in credentials
  succeeded,  \* session ids on which a completion call has returned verified
  issued,     \* the type and the expiresAt of every session ever begun
  config      \* auth-config.json, BackendService.config and the settings the
              \* WebAuthnService holds

vars == <<wired, now, sessions, sessTtl, passkeys, users, nextSid, nextPid, req,
          userCredentials, succeeded, issued, config>>

(***************************************************************************)
(* The configuration: config/auth-config.json (config.file), the copy      *)
(* BackendService keeps in this.config (config.cache, null until loaded),  *)
(* the settings WebAuthnService keeps in this.rpID, this.origin and        *)
(* this.timeout (config.service), and the two loadConfig calls the         *)
(* constructors start (config.boot).  config.latest holds, for every       *)
(* setting, the value of the last update that has completed, and          *)
(* config.updates counts the update requests made.                         *)
(***************************************************************************)
\* the constructor of WebAuthnService
ServiceDefaults == [rpID |-> "localhost", origin |-> ServiceOrigin, timeout |-> 60000]

\* auth-config.json as deployed for local use, with the sign-in credentials of u1
ConfigFile ==
  [webauthn |-> [rpID |-> "localhost", origin |-> ServiceOrigin, timeout |-> 60000],
   userCredentials |-> [u \in {"u1"} |-> "password"]]

ConfigKeys == {"rpID", "origin", "timeout"}

NoLatest == [rpID |-> Null, origin |-> Null, timeout |-> Null, credentials |-> Null]

Loader(pc, data) == [pc |-> pc, data |-> data]

\* the process after start-up, both loads done and nothing updated
Configured ==
  [file |-> ConfigFile, cache |-> ConfigFile, service |-> ServiceDefaults,
   boot |-> [l \in {"backend", "service"} |-> Loader("done", Null)],
   latest |-> NoLatest, updates |-> 0]

Idle ==
  [kind |-> "none", pc |-> "idle", sid |-> 0, chal |-> Null, pk |-> Null,
   origin |-> NoOrigin, platform |-> "", expOrigin |-> NoOrigin,
   calledPrim |-> FALSE, newCounter |-> 0, tmp |-> Null, outcome |-> "",
   wrote |-> FALSE, afterSuccess |-> FALSE, expiredAtCall |-> FALSE, typeAtCall |-> "",
   body |-> Null, skipBackendAuth |-> FALSE, backendCalls |-> 0, env |-> Null,
   userId |-> "", credentialId |-> "", sessUser |-> "", sessPlatform |-> "", info |-> Null,
   options |-> Null,
   resp |-> Null]

\* The kv store outlives the process: at start it is empty, or it holds the passkey
\* and the user record an earlier registration of u2 on the web left there.
Enrolled ==
  [id |-> 0, userId |-> "u2", username |-> "a@b.com", displayName |-> "A",
   credentialID |-> "c1", counter |-> 1, credentialBackedUp |-> FALSE,
   transports |-> <<"internal", "hybrid", "usb", "nfc", "ble">>, platform |-> "web",
   registeredFrom |-> ServiceOrigin, createdAt |-> 0, lastUsed |-> 0]

EnrolledUser ==
  [id |-> "u2", username |-> "a@b.com", displayName |-> "A", createdAt |-> 0, updatedAt |-> 0]

Init ==
  /\ wired \in {"kv", "json"}
  /\ now = 0
  /\ sessions = <<>>
  /\ sessTtl = <<>>
  /\ \/ passkeys = <<>> /\ users = <<>>
     \/ passkeys = (0 :> Enrolled) /\ users = ("u2" :> EnrolledUser)
  /\ nextSid = 1
  /\ nextPid = 1
  /\ req = [r \in ReqIds |-> Idle]
  /\ userCredentials \in {{"u1"}, {"u2"}}
  /\ succeeded = {}
  /\ issued = <<>>
  /\ config = Configured

(***************************************************************************)
(* KVStorage: sessions                                                     *)
(***************************************************************************)
\* a saveChallenge that stores every session as a registration session
NewSessionRegistrationOnly(challengeData) ==
  [type |-> "registration", challenge |-> challengeData.challenge,
   userId |-> challengeData.userId, username |-> challengeData.username,
   displayName |-> challengeData.displayName, platform |-> challengeData.platform,
   createdAt |-> now, expiresAt |-> now + ChallengeTTL]

\* the session record saveChallenge builds
NewSession(challengeData) ==
  [type |-> challengeData.type, challenge |-> challengeData.challenge,
   userId |-> challengeData.userId, username |-> challengeData.username,
   displayName |-> challengeData.displayName, platform |-> challengeData.platform,
   createdAt |-> now, expiresAt |-> now + ChallengeTTL]

\* kv.get of a session key: a key whose `ex` has run out is gone; at the very
\* instant of the deadline the store may answer either way
KvGetChallenge(sid) ==
  IF sid \notin DOMAIN sessions \/ now > sessTtl[sid] THEN {Null}
  ELSE IF now = sessTtl[sid] THEN {Null, sessions[sid]}
  ELSE {sessions[sid]}

KvSaveChallenge(sid, challengeData) ==
  /\ sessions' = (sid :> NewSession(challengeData)) @@ sessions
  /\ sessTtl' = (sid :> now + KvSessionEx) @@ sessTtl

Without(f, k) == [x \in DOMAIN f \ {k} |-> f[x]]

KvDeleteChallenge(sid) ==
  /\ sessions' = Without(sessions, sid)
  /\ sessTtl' = Without(sessTtl, sid)

(***************************************************************************)
(* JSONStorage: sessions.  `sessions` is then the content of sessions.json *)
(* and sessTtl stays empty.  A method of JSONStorage reads the whole file  *)
(* and writes it back; where requests run one at a time that is one step.  *)
(***************************************************************************)
JsonSaveChallenge(sid, challengeData) ==
  /\ sessions' = (sid :> NewSession(challengeData)) @@ sessions
  /\ UNCHANGED sessTtl

JsonExpired(sid) == sid \in DOMAIN sessions /\ now > sessions[sid].expiresAt

\* a getChallenge that does not look at expiresAt
JsonGetChallengeNoExpiry(sid) ==
  IF sid \notin DOMAIN sessions THEN Null ELSE sessions[sid]

\* what getChallenge returns
JsonGetChallenge(sid) ==
  IF sid \notin DOMAIN sessions THEN Null
  ELSE IF JsonExpired(sid) THEN Null
  ELSE sessions[sid]

JsonDeleteChallenge(sid) ==
  /\ sessions' = Without(sessions, sid)
  /\ UNCHANGED sessTtl

\* a sweep that takes every session for expired
JsonSweepableAll == DOMAIN sessions

\* the sessions a sweep removes
JsonSweepable == {s \in DOMAIN sessions : sessions[s].expiresAt < now}

(***************************************************************************)
(* The storage module the service was loaded with                          *)
(***************************************************************************)
saveChallenge(sid, challengeData) ==
  IF wired = "kv" THEN KvSaveChallenge(sid, challengeData)
  ELSE JsonSaveChallenge(sid, challengeData)

\* the possible results of getChallenge
getChallenge(sid) ==
  IF wired = "kv" THEN KvGetChallenge(sid) ELSE {JsonGetChallenge(sid)}

\* a getChallenge that takes the session out of the store as it reads it
getChallengeEffectConsumes(sid) ==
  IF wired = "kv" THEN KvDeleteChallenge(sid) ELSE JsonDeleteChallenge(sid)

\* what getChallenge does to the store: JSONStorage deletes the expired session
getChallengeEffect(sid) ==
  IF wired = "json" /\ JsonExpired(sid) THEN JsonDeleteChallenge(sid)
  ELSE UNCHANGED <<sessions, sessTtl>>

\* a completion that leaves the session in the store
deleteChallengeSkipped(sid) == UNCHANGED <<sessions, sessTtl>>

deleteChallenge(sid) ==
  IF wired = "kv" THEN KvDeleteChallenge(sid) ELSE JsonDeleteChallenge(sid)

\* POST /cleanup: cleanupExpiredSessions
cleanupExpiredSessions ==
  /\ IF wired = "json"
       THEN sessions' = [s \in DOMAIN sessions \ JsonSweepable |-> sessions[s]]
       ELSE UNCHANGED sessions
  /\ UNCHANGED <<wired, now, sessTtl, passkeys, users, nextSid, nextPid, req,
                 userCredentials, succeeded, issued, config>>

\* savePasskey, the same in KVStorage and JSONStorage: the record is stored under
\* its id with createdAt and lastUsed both set to the present time
savePasskey(passkeyId, passkeyData) ==
  passkeys' = (passkeyId :> [passkeyData EXCEPT !.id = passkeyId, !.createdAt = now,
                                                 !.lastUsed = now]) @@ passkeys

getPasskeyById(passkeyId) ==
  IF passkeyId \in DOMAIN passkeys THEN passkeys[passkeyId] ELSE Null

\* passkeys of one user, or all of them
getPasskeys(userId) ==
  {passkeys[k] : k \in {x \in DOMAIN passkeys : userId = NoUser \/ passkeys[x].userId = userId}}

(***************************************************************************)
(* The begin operations                                                    *)
(***************************************************************************)
\* const sessionId = uuidv4(); await storage.saveChallenge(sessionId, {...}): the
\* challenge of the options is the one stored
SaveNewChallenge(challengeData) ==
  /\ saveChallenge(nextSid, challengeData)
  /\ nextSid' = nextSid + 1
  /\ issued' = (nextSid :> [type |-> challengeData.type, expiresAt |-> now + ChallengeTTL])
                  @@ issued
  /\ UNCHANGED <<wired, now, passkeys, users, nextPid, userCredentials, succeeded, config>>

generateRegistrationOptions(userId, username, displayName, platform) ==
  /\ SaveNewChallenge(
       [type |-> "registration", challenge |-> nextSid, userId |-> userId,
        username |-> username, displayName |-> displayName, platform |-> platform])
  /\ UNCHANGED req

generateAuthenticationOptions(userId, platform) ==
  /\ SaveNewChallenge(
       [type |-> "authentication", challenge |-> nextSid, userId |-> userId,
        username |-> "", displayName |-> "", platform |-> platform])
  /\ UNCHANGED req

(***************************************************************************)
(* The clock.  A kv key whose expiry has passed no longer exists.          *)
(***************************************************************************)
KvLive(t) == {s \in DOMAIN sessions : wired = "kv" => t <= sessTtl[s]}

Tick ==
  /\ now < MaxTime
  /\ now' = now + 1
  /\ sessions' = [s \in KvLive(now + 1) |-> sessions[s]]
  /\ sessTtl' = [s \in KvLive(now + 1) \cap DOMAIN sessTtl |-> sessTtl[s]]
  /\ UNCHANGED <<wired, passkeys, users, nextSid, nextPid, req, userCredentials, succeeded,
                 issued, config>>

(***************************************************************************)
(* Request slots                                                           *)
(***************************************************************************)
\* a thrown error reaches the route's catch, next(error) and the error handler,
\* which answers {error: true, message}
\* The fields of a response the properties look at: success, the user, and of
\* backendAuthentication whether it is there (attached), its success ("true",
\* "false" or "absent"), the case the route answered with (backend), the kind of
\* error object authenticateUser returned (error), the userId its message names
\* and the availableUsers list; and whether there is a warning string.
ErrorResponse ==
  [success |-> FALSE, user |-> "", attached |-> FALSE, backend |-> "none",
   bsuccess |-> "absent", error |-> "", messageUser |-> "", hasUsers |-> FALSE,
   availableUsers |-> {}, warning |-> FALSE]

Failed(r, sid, why) ==
  [Idle EXCEPT !.kind = req[r].kind, !.pc = "done", !.sid = sid,
               !.outcome = why, !.wrote = req[r].wrote,
               !.resp = ErrorResponse, !.body = req[r].body,
               !.calledPrim = req[r].calledPrim,
               !.afterSuccess = req[r].afterSuccess,
               !.typeAtCall = req[r].typeAtCall,
               !.expiredAtCall = req[r].expiredAtCall]

Fail(r, sid, why) == req' = [req EXCEPT ![r] = Failed(r, sid, why)]

\* what the call is up against when it is made: facts about the past, for the properties
CallFacts(kind, sid) ==
  [Idle EXCEPT !.kind = kind, !.sid = sid,
               !.afterSuccess = (sid \in succeeded),
               !.typeAtCall = issued[sid].type,
               !.expiredAtCall = (now > issued[sid].expiresAt)]

\* a completion that accepts a session of either ceremony
SessionUsableAnyType(challengeData, type) == challengeData # Null

\* `!challengeData || challengeData.type !== type` is what rejects the session
SessionUsable(challengeData, type) == challengeData # Null /\ challengeData.type = type

(***************************************************************************)
(* WebAuthnService.verifyRegistration                                      *)
(***************************************************************************)
\* a verifyRegistration that takes the session of any user
UserMatchesAlways(challengeData, userId) == TRUE

\* `challengeData.userId !== userId` is what rejects the call
UserMatches(challengeData, userId) == challengeData.userId = userId

\* a verifyRegistration that checks the origin before it compares the users
RegGetChallengeAsOriginFirst(r, sid, userId, origin, platform, body) ==
  /\ req[r].pc = "idle"
  /\ getChallengeEffect(sid)
  /\ \E challengeData \in getChallenge(sid) :
       LET c0 == [CallFacts("reg", sid) EXCEPT !.body = body]
           c == IF SessionUsable(challengeData, "registration")
                  THEN [c0 EXCEPT !.userId = userId, !.sessUser = challengeData.userId,
                                  !.sessPlatform = challengeData.platform]
                  ELSE c0
       IN
       req' = [req EXCEPT ![r] =
         IF ~SessionUsable(challengeData, "registration")
           THEN [c EXCEPT !.pc = "done", !.outcome = "SessionInvalid", !.resp = ErrorResponse]
         ELSE IF OriginRejected(origin, platform)
           THEN [c EXCEPT !.pc = "done", !.outcome = "InvalidOrigin", !.resp = ErrorResponse]
         ELSE IF ~UserMatches(challengeData, userId)
           THEN [c EXCEPT !.pc = "done", !.outcome = "UserMismatch", !.resp = ErrorResponse]
         ELSE [c EXCEPT !.pc = "reg_verify", !.chal = challengeData, !.origin = origin,
                        !.platform = platform,
                        !.expOrigin = ResolveExpectedOrigin(origin, platform),
                        !.calledPrim = TRUE]]
  /\ UNCHANGED <<wired, now, passkeys, users, nextSid, nextPid,
                 userCredentials, succeeded, issued, config>>

\* storage.getChallenge, then the checks up to the call of the primitive
RegGetChallengeAs(r, sid, userId, origin, platform, body) ==
  /\ req[r].pc = "idle"
  /\ getChallengeEffect(sid)
  /\ \E challengeData \in getChallenge(sid) :
       LET c0 == [CallFacts("reg", sid) EXCEPT !.body = body]
           c == IF SessionUsable(challengeData, "registration")
                  THEN [c0 EXCEPT !.userId = userId, !.sessUser = challengeData.userId,
                                  !.sessPlatform = challengeData.platform]
                  ELSE c0
       IN
       req' = [req EXCEPT ![r] =
         IF ~SessionUsable(challengeData, "registration")
           THEN [c EXCEPT !.pc = "done", !.outcome = "SessionInvalid", !.resp = ErrorResponse]
         ELSE IF ~UserMatches(challengeData, userId)
           THEN [c EXCEPT !.pc = "done", !.outcome = "UserMismatch", !.resp = ErrorResponse]
         ELSE IF OriginRejected(origin, platform)
           THEN [c EXCEPT !.pc = "done", !.outcome = "InvalidOrigin", !.resp = ErrorResponse]
         ELSE [c EXCEPT !.pc = "reg_verify", !.chal = challengeData, !.origin = origin,
                        !.platform = platform,
                        !.expOrigin = ResolveExpectedOrigin(origin, platform),
                        !.calledPrim = TRUE]]
  /\ UNCHANGED <<wired, now, passkeys, users, nextSid, nextPid,
                 userCredentials, succeeded, issued, config>>

\* verifyRegistration called directly, with any origin
RegGetChallenge(r, sid, userId, origin, platform) ==
  RegGetChallengeAs(r, sid, userId, origin, platform, Null)

\* POST /register/complete: `const requestOrigin = "nagender.in"`
RouteRequestOrigin == <<"nagender.in">>

\* POST /register/complete: the body's origin and platform are read, the platform is
\* the explicit one, and verifyRegistration is called with requestOrigin
RegisterComplete(r, sid, userId, origin, platform) ==
  RegGetChallengeAs(r, sid, userId, RouteRequestOrigin, platform,
                    [origin |-> origin, platform |-> platform])

\* `challengeData.platform || platform`
PlatformOf(challengeData, platform) ==
  IF challengeData.platform # "" THEN challengeData.platform ELSE platform

\* the passkeyData record of lines 207-220, under the id uuidv4 gave it
PasskeyData(passkeyId, challengeData, info, transports, platform, expectedOrigin) ==
  [id |-> passkeyId,
   userId |-> challengeData.userId, username |-> challengeData.username,
   displayName |-> challengeData.displayName,
   credentialID |-> info.credentialID, counter |-> info.counter,
   credentialBackedUp |-> info.credentialBackedUp,
   transports |-> IF transports.present THEN transports.list
                  ELSE getTransportsForPlatform(NoTransports, PlatformOf(challengeData, platform)),
   platform |-> PlatformOf(challengeData, platform),
   registeredFrom |-> expectedOrigin,
   createdAt |-> 0, lastUsed |-> 0]

\* what verifyRegistrationResponse may report as registrationInfo, with the
\* transports the client's response declared: none, an empty list, or usb
RegistrationResults ==
  {[credentialID |-> "c1", counter |-> 0, credentialBackedUp |-> FALSE, transports |-> NoTransports],
   [credentialID |-> "c2", counter |-> 0, credentialBackedUp |-> FALSE,
    transports |-> SomeTransports(<<>>)],
   [credentialID |-> "c2", counter |-> 1, credentialBackedUp |-> TRUE,
    transports |-> SomeTransports(<<"usb">>)]}

\* verifyRegistrationResponse returns
RegVerify(r, verified, info) ==
  /\ req[r].pc = "reg_verify"
  /\ IF ~verified
       THEN Fail(r, req[r].sid, "VerificationFailed") /\ UNCHANGED nextPid
       ELSE /\ nextPid <= MaxPasskeys
            /\ nextPid' = nextPid + 1
            /\ req' = [req EXCEPT ![r].pc = "reg_savePasskey", ![r].info = info,
                                  ![r].pk = PasskeyData(nextPid, req[r].chal, info, info.transports,
                                                        req[r].platform, req[r].expOrigin),
                                  ![r].origin = NoOrigin, ![r].platform = "",
                                  ![r].expOrigin = NoOrigin]
  /\ UNCHANGED <<wired, now, sessions, sessTtl, passkeys, users, nextSid, userCredentials, succeeded,
                 issued, config>>

RegSavePasskey(r) ==
  /\ req[r].pc = "reg_savePasskey"
  /\ savePasskey(req[r].pk.id, req[r].pk)
  /\ req' = [req EXCEPT ![r].pc = "reg_saveUser_get", ![r].wrote = TRUE]
  /\ UNCHANGED <<wired, now, sessions, sessTtl, users, nextSid, nextPid, userCredentials,
                 succeeded, issued, config>>

\* KVStorage.saveUser: getUser ...
RegSaveUserGet(r) ==
  /\ req[r].pc = "reg_saveUser_get"
  /\ LET userId == req[r].chal.userId IN
     req' = [req EXCEPT ![r].pc = "reg_saveUser_set",
                        ![r].tmp = IF userId \in DOMAIN users THEN users[userId] ELSE Null]
  /\ UNCHANGED <<wired, now, sessions, sessTtl, passkeys, users, nextSid, nextPid,
                 userCredentials, succeeded, issued, config>>

\* a saveUser that stamps createdAt anew on every call
RegSaveUserSetFresh(r) ==
  /\ req[r].pc = "reg_saveUser_set"
  /\ LET c == req[r].chal
         existing == req[r].tmp IN
     users' = (c.userId :> [id |-> c.userId, username |-> c.username,
                            displayName |-> c.displayName,
                            createdAt |-> now,
                            updatedAt |-> now]) @@ users
  /\ req' = [req EXCEPT ![r].pc = "reg_deleteChallenge", ![r].tmp = Null]
  /\ UNCHANGED <<wired, now, sessions, sessTtl, passkeys, nextSid, nextPid, userCredentials,
                 succeeded, issued, config>>

\* ... then kv.set of the user record
RegSaveUserSet(r) ==
  /\ req[r].pc = "reg_saveUser_set"
  /\ LET c == req[r].chal
         existing == req[r].tmp IN
     users' = (c.userId :> [id |-> c.userId, username |-> c.username,
                            displayName |-> c.displayName,
                            createdAt |-> IF existing # Null THEN existing.createdAt ELSE now,
                            updatedAt |-> now]) @@ users
  /\ req' = [req EXCEPT ![r].pc = "reg_deleteChallenge", ![r].tmp = Null]
  /\ UNCHANGED <<wired, now, sessions, sessTtl, passkeys, nextSid, nextPid, userCredentials,
                 succeeded, issued, config>>

\* storage.deleteChallenge, and the call returns {verified: true, ...}
RegDeleteChallenge(r) ==
  /\ req[r].pc = "reg_deleteChallenge"
  /\ deleteChallenge(req[r].sid)
  /\ req' = [req EXCEPT ![r].pc = "done", ![r].outcome = "ok", ![r].chal = Null,
                        ![r].resp = [ErrorResponse EXCEPT !.success = TRUE,
                                                          !.user = req[r].pk.userId]]
  /\ succeeded' = succeeded \cup {req[r].sid}
  /\ UNCHANGED <<wired, now, passkeys, users, nextSid, nextPid, userCredentials, issued, config>>

(***************************************************************************)
(* WebAuthnService.verifyAuthentication                                    *)
(***************************************************************************)
AuthGetChallenge(r, sid) ==
  /\ req[r].pc = "idle"
  /\ getChallengeEffect(sid)
  /\ \E challengeData \in getChallenge(sid) :
       LET c == CallFacts("auth", sid) IN
       req' = [req EXCEPT ![r] =
         IF ~SessionUsable(challengeData, "authentication")
           THEN [c EXCEPT !.pc = "done", !.outcome = "SessionInvalid", !.resp = ErrorResponse]
         ELSE [c EXCEPT !.pc = "auth_getPasskeys", !.chal = challengeData]]
  /\ UNCHANGED <<wired, now, passkeys, users, nextSid, nextPid,
                 userCredentials, succeeded, issued, config>>

\* a lookup that takes any stored passkey for the responding credential
FindPasskeysAny(allPasskeys, credentialId) == allPasskeys

\* allPasskeys.find(p => Buffer.from(p.credentialID).equals(Buffer.from(credential.id,
\* 'base64url'))): the passkeys find() may return.  A credential id is a token that
\* stands for its bytes; how the primitive represents registrationInfo.credentialID
\* is the library's matter.
FindPasskeys(allPasskeys, credentialId) ==
  {p \in allPasskeys : p.credentialID = credentialId}

\* storage.getPasskeys(), the lookup by credential id, the origin policy, and the
\* call of the primitive.  find() returns the first match in the order of kv.keys,
\* which is any order.
AuthGetPasskeys(r, credentialId, origin) ==
  /\ req[r].pc = "auth_getPasskeys"
  /\ LET found == FindPasskeys(getPasskeys(NoUser), credentialId)
         platform == IF req[r].chal.platform # "" THEN req[r].chal.platform ELSE "web"
     IN IF found = {}
          THEN req' = [req EXCEPT ![r] = [Failed(r, req[r].sid, "CredentialNotFound")
                                            EXCEPT !.credentialId = credentialId,
                                                   !.origin = origin]]
        ELSE IF OriginRejected(origin, platform)
          THEN req' = [req EXCEPT ![r] = [Failed(r, req[r].sid, "InvalidOrigin")
                                            EXCEPT !.credentialId = credentialId]]
        ELSE \E passkey \in found :
               req' = [req EXCEPT ![r].pc = "auth_verify", ![r].pk = passkey,
                                  ![r].credentialId = credentialId,
                                  ![r].origin = origin, ![r].platform = platform,
                                  ![r].expOrigin = ResolveExpectedOrigin(origin, platform),
                                  ![r].calledPrim = TRUE]
  /\ UNCHANGED <<wired, now, sessions, sessTtl, passkeys, users, nextSid, nextPid,
                 userCredentials, succeeded, issued, config>>

\* a verifyAuthentication that stores the new counter before it looks at `verified`
AuthVerifyWritesFirst(r, verified, newCounter) ==
  /\ req[r].pc = "auth_verify"
  /\ savePasskey(req[r].pk.id, [req[r].pk EXCEPT !.counter = newCounter])
  /\ IF ~verified THEN Fail(r, req[r].sid, "VerificationFailed")
     ELSE req' = [req EXCEPT ![r].pc = "auth_touch_get", ![r].wrote = TRUE,
                             ![r].chal = Null, ![r].origin = NoOrigin, ![r].platform = "",
                             ![r].expOrigin = NoOrigin]
  /\ UNCHANGED <<wired, now, sessions, sessTtl, users, nextSid, nextPid,
                 userCredentials, succeeded, issued, config>>

\* verifyAuthenticationResponse returns
AuthVerify(r, verified, newCounter) ==
  /\ req[r].pc = "auth_verify"
  /\ IF ~verified THEN Fail(r, req[r].sid, "VerificationFailed")
     ELSE req' = [req EXCEPT ![r].pc = "auth_savePasskey", ![r].newCounter = newCounter,
                             ![r].chal = Null, ![r].origin = NoOrigin, ![r].platform = "",
                             ![r].expOrigin = NoOrigin]
  /\ UNCHANGED <<wired, now, sessions, sessTtl, passkeys, users, nextSid, nextPid,
                 userCredentials, succeeded, issued, config>>

\* storage.savePasskey(passkey.id, {...passkey, counter: newCounter})
AuthSavePasskey(r) ==
  /\ req[r].pc = "auth_savePasskey"
  /\ savePasskey(req[r].pk.id, [req[r].pk EXCEPT !.counter = req[r].newCounter])
  /\ req' = [req EXCEPT ![r].pc = "auth_touch_get", ![r].wrote = TRUE, ![r].newCounter = 0]
  /\ UNCHANGED <<wired, now, sessions, sessTtl, users, nextSid, nextPid, userCredentials,
                 succeeded, issued, config>>

\* KVStorage.updatePasskeyLastUsed: getPasskeyById ...
AuthTouchGet(r) ==
  /\ req[r].pc = "auth_touch_get"
  /\ LET id == req[r].pk.id IN
     IF id \in DOMAIN passkeys
       THEN req' = [req EXCEPT ![r].pc = "auth_touch_set", ![r].tmp = passkeys[id]]
       ELSE req' = [req EXCEPT ![r].pc = "auth_deleteChallenge"]
  /\ UNCHANGED <<wired, now, sessions, sessTtl, passkeys, users, nextSid, nextPid,
                 userCredentials, succeeded, issued, config>>

\* ... then kv.set of the record it read, with lastUsed refreshed
AuthTouchSet(r) ==
  /\ req[r].pc = "auth_touch_set"
  /\ passkeys' = (req[r].pk.id :> [req[r].tmp EXCEPT !.lastUsed = now]) @@ passkeys
  /\ req' = [req EXCEPT ![r].pc = "auth_deleteChallenge", ![r].tmp = Null]
  /\ UNCHANGED <<wired, now, sessions, sessTtl, users, nextSid, nextPid, userCredentials,
                 succeeded, issued, config>>

\* storage.deleteChallenge, and the call returns {verified: true, ...}
AuthDeleteChallenge(r) ==
  /\ req[r].pc = "auth_deleteChallenge"
  /\ deleteChallenge(req[r].sid)
  /\ req' = [req EXCEPT ![r].pc = "login_delegate", ![r].outcome = "ok"]
  /\ succeeded' = succeeded \cup {req[r].sid}
  /\ UNCHANGED <<wired, now, passkeys, users, nextSid, nextPid, userCredentials, issued, config>>

(***************************************************************************)
(* POST /login/complete after verifyAuthentication has returned verified,  *)
(* and BackendService.authenticateUser                                     *)
(***************************************************************************)
\* How the backend call can go: whether auth-config.json could be loaded when
\* authenticateUser ran and when getUserCredentials ran (once loaded the config
\* stays loaded), and what axios.post did.
AxiosOutcomes == {"ok", "response_error", "no_response", "setup_error"}
BackendEnvs ==
  {e \in [loaded1 : BOOLEAN, loaded2 : BOOLEAN, axios : AxiosOutcomes] : e.loaded1 => e.loaded2}

\* an authenticateUser whose failed results carry no error object
authenticateUserUnclassified(userId, e) ==
  IF ~e.loaded1 THEN [thrown |-> "config_not_found", success |-> FALSE, error |-> ""]
  ELSE IF userId \notin userCredentials
    THEN [thrown |-> "no_credentials", success |-> FALSE, error |-> ""]
  ELSE [thrown |-> "", success |-> e.axios = "ok", error |-> ""]

\* BackendService.authenticateUser: what it throws, or the result it returns;
\* error is the kind of error object of a result that is not a success: the
\* remote status and message ("response"), 503 unable to connect ("network"),
\* 500 with the message of the local error ("other")
authenticateUser(userId, e) ==
  IF ~e.loaded1 THEN [thrown |-> "config_not_found", success |-> FALSE, error |-> ""]
  ELSE IF userId \notin userCredentials
    THEN [thrown |-> "no_credentials", success |-> FALSE, error |-> ""]
  ELSE IF e.axios = "ok" THEN [thrown |-> "", success |-> TRUE, error |-> ""]
  ELSE IF e.axios = "response_error" THEN [thrown |-> "", success |-> FALSE, error |-> "response"]
  ELSE IF e.axios = "no_response" THEN [thrown |-> "", success |-> FALSE, error |-> "network"]
  ELSE [thrown |-> "", success |-> FALSE, error |-> "other"]

\* the response the route sends once result.verified is true: baseResponse with
\* the backendAuthentication field, and a warning where the code adds one
BaseResponse(userId, backend, warning) ==
  [ErrorResponse EXCEPT !.success = TRUE, !.user = userId, !.attached = TRUE,
                        !.backend = backend, !.warning = warning,
                        !.bsuccess = CASE backend = "skipped" -> "absent"
                                       [] backend = "signin_successful" -> "true"
                                       [] OTHER -> "false"]

\* a route in which an error thrown by the credential lookup escapes to next(error)
LoginResponseLookupEscapes(userId, skipBackendAuth, e) ==
  LET backendResult == authenticateUser(userId, e) IN
  IF skipBackendAuth THEN BaseResponse(userId, "skipped", FALSE)
  ELSE IF backendResult.thrown = "" THEN
    IF backendResult.success THEN BaseResponse(userId, "signin_successful", FALSE)
    ELSE BaseResponse(userId, "signin_failed", TRUE)
  ELSE IF ~e.loaded2 THEN ErrorResponse
  ELSE IF userId \notin userCredentials
    THEN BaseResponse(userId, "no_credentials_configured", TRUE)
    ELSE BaseResponse(userId, "service_error", TRUE)

\* a route that sends a failed sign-in without the warning
LoginResponseNoWarning(userId, skipBackendAuth, e) ==
  BaseResponse(userId, IF skipBackendAuth THEN "skipped" ELSE "signin_failed", FALSE)

\* a route that answers a missing credential without the list of configured users
LoginResponseNoUserList(userId, skipBackendAuth, e) ==
  BaseResponse(userId, IF skipBackendAuth THEN "skipped" ELSE "no_credentials_configured", TRUE)

LoginResponse(userId, skipBackendAuth, e) ==
  LET backendResult == authenticateUser(userId, e) IN
  IF skipBackendAuth THEN BaseResponse(userId, "skipped", FALSE)
  ELSE IF backendResult.thrown = "" THEN
    IF backendResult.success THEN BaseResponse(userId, "signin_successful", FALSE)
    ELSE [BaseResponse(userId, "signin_failed", TRUE) EXCEPT !.error = backendResult.error]
  ELSE IF ~e.loaded2 THEN BaseResponse(userId, "service_unavailable", TRUE)
  ELSE IF userId \notin userCredentials
    THEN [BaseResponse(userId, "no_credentials_configured", TRUE)
            EXCEPT !.messageUser = userId, !.hasUsers = TRUE,
                   !.availableUsers = userCredentials]
    ELSE BaseResponse(userId, "service_error", TRUE)

\* the environment of a request that never calls the backend
NoBackendEnv == [loaded1 |-> FALSE, loaded2 |-> FALSE, axios |-> "setup_error"]

\* a route that signs in to the backend whatever skipBackendAuth says
LoginDelegateIgnoresSkip(r, skipBackendAuth) ==
  /\ req[r].pc = "login_delegate"
  /\ req' = [req EXCEPT ![r].pc = "login_backend", ![r].skipBackendAuth = skipBackendAuth,
                        ![r].backendCalls = req[r].backendCalls + 1]
  /\ UNCHANGED <<wired, now, sessions, sessTtl, passkeys, users, nextSid, nextPid,
                 userCredentials, succeeded, issued, config>>

\* verifyAuthentication has returned verified: the route answers at once when
\* skipBackendAuth is set, and calls backendService.authenticateUser otherwise
LoginDelegate(r, skipBackendAuth) ==
  /\ req[r].pc = "login_delegate"
  /\ req' = IF skipBackendAuth
              THEN [req EXCEPT ![r].pc = "done", ![r].skipBackendAuth = TRUE,
                               ![r].resp = LoginResponse(req[r].pk.userId, TRUE, NoBackendEnv)]
              ELSE [req EXCEPT ![r].pc = "login_backend",
                               ![r].backendCalls = req[r].backendCalls + 1]
  /\ UNCHANGED <<wired, now, sessions, sessTtl, passkeys, users, nextSid, nextPid,
                 userCredentials, succeeded, issued, config>>

\* an axios without a timeout settles only when the upstream replies
LocalOutcomesNoTimeout == {}

\* the axios outcomes that need no reply of the upstream: the request timed out
\* or could not be sent, or it could not be set up
LocalOutcomes == {"no_response", "setup_error"}

\* authenticateUser settles, by a throw or a result, and the route answers
BackendSettles(r, e) ==
  /\ req[r].pc = "login_backend"
  /\ req' = [req EXCEPT ![r].pc = "done", ![r].env = e,
                        ![r].resp = LoginResponse(req[r].pk.userId, req[r].skipBackendAuth, e)]
  /\ UNCHANGED <<wired, now, sessions, sessTtl, passkeys, users, nextSid, nextPid,
                 userCredentials, succeeded, issued, config>>

\* ... because the upstream replied
UpstreamReplies(r) ==
  \E e \in BackendEnvs : e.axios \notin LocalOutcomes /\ BackendSettles(r, e)

\* ... without a reply of the upstream: the timeout of axios.post ran out, the
\* request failed locally, or authenticateUser threw before the request
SettlesWithoutReply(r) ==
  \E e \in BackendEnvs : e.axios \in LocalOutcomes /\ BackendSettles(r, e)

\* the result has been handed back to the caller
Respond(r) ==
  /\ req[r].pc = "done"
  /\ req' = [req EXCEPT ![r] = Idle]
  /\ UNCHANGED <<wired, now, sessions, sessTtl, passkeys, users, nextSid, nextPid,
                 userCredentials, succeeded, issued, config>>

Issued == 1..(nextSid - 1)

\* at most maxSessions sessions are begun in a run
Begin(maxSessions) ==
  /\ nextSid <= maxSessions
  /\ \/ \E u \in RegBeginUsers, n \in Usernames, d \in DisplayNames, p \in Platforms :
          generateRegistrationOptions(u, n, d, p)
     \/ \E u \in AuthBeginUsers, p \in Platforms : generateAuthenticationOptions(u, p)

Registration(r) ==
  \/ \E sid \in Issued, u \in Users, o \in OriginInputs, p \in Platforms :
       RegGetChallenge(r, sid, u, o, p)
  \/ \E sid \in Issued, u \in Users, o \in OriginInputs, p \in Platforms :
       RegisterComplete(r, sid, u, o, p)
  \/ \E v \in BOOLEAN, info \in RegistrationResults : RegVerify(r, v, info)
  \/ RegSavePasskey(r)
  \/ RegSaveUserGet(r)
  \/ RegSaveUserSet(r)
  \/ RegDeleteChallenge(r)

Authentication(r) ==
  \/ \E sid \in Issued : AuthGetChallenge(r, sid)
  \/ \E c \in CredIds, o \in OriginInputs : AuthGetPasskeys(r, c, o)
  \/ \E v \in BOOLEAN, n \in 0..MaxCounter : AuthVerify(r, v, n)
  \/ AuthSavePasskey(r)
  \/ AuthTouchGet(r)
  \/ AuthTouchSet(r)
  \/ AuthDeleteChallenge(r)
  \/ \E skip \in BOOLEAN : LoginDelegate(r, skip)
  \/ UpstreamReplies(r)
  \/ SettlesWithoutReply(r)

\* One request at a time, within one tick of the clock.
Next ==
  \/ Begin(MaxSessions)
  \/ Registration("r1")
  \/ Authentication("r1")
  \/ Respond("r1")

Spec == Init /\ [][Next]_vars

\* DELETE /api/passkeys/:id: getPasskeyById, 404 when there is none, then
\* deletePasskey; with one request at a time nothing runs between the two awaits
DeletePasskeyRoute(r, id) ==
  /\ req[r].pc = "idle"
  /\ LET existingPasskey == getPasskeyById(id) IN
     IF existingPasskey = Null
       THEN /\ req' = [req EXCEPT ![r] = [Idle EXCEPT !.kind = "delete", !.pc = "done",
                                                       !.outcome = "NotFound",
                                                       !.resp = ErrorResponse]]
            /\ UNCHANGED passkeys
       ELSE /\ req' = [req EXCEPT ![r] =
                        [Idle EXCEPT !.kind = "delete", !.pc = "done", !.outcome = "ok",
                                     !.wrote = TRUE, !.pk = existingPasskey,
                                     !.resp = [ErrorResponse EXCEPT !.success = TRUE,
                                                 !.user = existingPasskey.userId]]]
            /\ passkeys' = Without(passkeys, id)
  /\ UNCHANGED <<wired, now, sessions, sessTtl, users, nextSid, nextPid, userCredentials,
                 succeeded, issued, config>>

\* A completion call that failed, and the next one: the second call of
\* verifyRegistration or verifyAuthentication is made once the first request has
\* ended in an error, and the first request's slot keeps what it answered.
FailedBefore == req["r1"].pc = "done" /\ req["r1"].outcome # "ok"

SecondCompletion(r) ==
  \/ \E sid \in Issued, u \in Users, o \in OriginInputs, p \in Platforms :
       FailedBefore /\ RegGetChallenge(r, sid, u, o, p)
  \/ \E v \in BOOLEAN, info \in RegistrationResults : RegVerify(r, v, info)
  \/ RegSavePasskey(r)
  \/ RegSaveUserGet(r)
  \/ RegSaveUserSet(r)
  \/ RegDeleteChallenge(r)
  \/ \E sid \in Issued : FailedBefore /\ AuthGetChallenge(r, sid)
  \/ \E c \in CredIds, o \in OriginInputs : AuthGetPasskeys(r, c, o)
  \/ \E v \in BOOLEAN, n \in 0..MaxCounter : AuthVerify(r, v, n)
  \/ AuthSavePasskey(r)
  \/ AuthTouchGet(r)
  \/ AuthTouchSet(r)
  \/ AuthDeleteChallenge(r)

\* the run ends with the second call
NextRetry ==
  \/ req["r2"].pc = "idle" /\ Next
  \/ SecondCompletion("r2")

SpecRetry == Init /\ [][NextRetry]_vars

\* One request at a time, the deletion of a passkey among them.
NextRepo ==
  \/ Next
  \/ \E id \in 0..MaxPasskeys : DeletePasskeyRoute("r1", id)

SpecRepo == Init /\ [][NextRepo]_vars

\* One request at a time, while the clock runs and the sweep may be called.
NextClock ==
  \/ Next
  \/ Tick
  \/ cleanupExpiredSessions

SpecClock == Init /\ [][NextClock]_vars

\* One request at a time.  The code that follows the return of verifyAuthentication
\* runs when the await resumes, and the axios timeout (timeout || 30000) fires when
\* the upstream has not replied: neither step can stay enabled for ever.
SpecLive ==
  /\ Init
  /\ [][Next]_vars
  /\ WF_vars(\E skip \in BOOLEAN : LoginDelegate("r1", skip))
  /\ WF_vars(SettlesWithoutReply("r1"))

\* Registrations on the web one after another while the clock runs, over a store
\* that is empty at the start: a user may register a second passkey later.
ProfileUsernames == {"a@b.com", "a@c.com"}
ProfileDisplayNames == {"A", "B"}

NextUsers ==
  \/ \E u \in RegBeginUsers, n \in ProfileUsernames, d \in ProfileDisplayNames :
       nextSid <= MaxConcSessions /\ generateRegistrationOptions(u, n, d, "web")
  \/ \E sid \in Issued, u \in Users : RegGetChallenge("r1", sid, u, NoOrigin, "web")
  \/ \E v \in BOOLEAN, info \in RegistrationResults : RegVerify("r1", v, info)
  \/ RegSavePasskey("r1")
  \/ RegSaveUserGet("r1")
  \/ RegSaveUserSet("r1")
  \/ RegDeleteChallenge("r1")
  \/ Respond("r1")
  \/ Tick

InitUsers ==
  /\ wired \in {"kv", "json"}
  /\ now = 0
  /\ sessions = <<>>
  /\ sessTtl = <<>>
  /\ passkeys = <<>>
  /\ users = <<>>
  /\ nextSid = 1
  /\ nextPid = 0
  /\ req = [r \in ReqIds |-> Idle]
  /\ userCredentials = {"u1"}
  /\ succeeded = {}
  /\ issued = <<>>
  /\ config = Configured

SpecUsers == InitUsers /\ [][NextUsers]_vars

\* POST /cleanup as a request: cleaned = await storage.cleanupExpiredSessions(),
\* answered with cleanedUp: cleaned.  KVStorage.cleanupExpiredSessions returns
\* false and touches nothing.  The slot keeps the time of the call.
CleanupRoute(r) ==
  /\ req[r].pc = "idle"
  /\ LET cleaned == wired = "json" /\ JsonSweepable # {} IN
     /\ sessions' = IF wired = "json"
                      THEN [s \in DOMAIN sessions \ JsonSweepable |-> sessions[s]]
                      ELSE sessions
     /\ req' = [req EXCEPT ![r] =
                  [Idle EXCEPT !.kind = "cleanup", !.pc = "done",
                               !.outcome = IF cleaned THEN "true" ELSE "false",
                               !.wrote = cleaned, !.tmp = [at |-> now],
                               !.resp = [ErrorResponse EXCEPT !.success = TRUE]]]
  /\ UNCHANGED <<wired, now, sessTtl, passkeys, users, nextSid, nextPid,
                 userCredentials, succeeded, issued, config>>

\* Sessions are begun and expire while the clock runs, and the sweep is called.
NextSweep ==
  \/ Begin(MaxConcSessions)
  \/ Tick
  \/ \E r \in ReqIds : CleanupRoute(r)
  \/ \E r \in ReqIds : Respond(r)

SpecSweep == Init /\ [][NextSweep]_vars

\* Two login/complete requests in flight, within one tick of the clock.
NextConc ==
  \/ \E u \in AuthBeginUsers, p \in Platforms :
       nextSid <= MaxConcSessions /\ generateAuthenticationOptions(u, p)
  \/ \E r \in ReqIds : Authentication(r)
  \/ \E r \in ReqIds : Respond(r)

InitConc == Init /\ wired = "kv"

SpecConc == InitConc /\ [][NextConc]_vars

\* DELETE /api/passkeys/:id with other requests in flight: await
\* storage.getPasskeyById(id), 404 when there is none ...
DeleteGetPasskeyById(r, id) ==
  /\ req[r].pc = "idle"
  /\ LET existingPasskey == getPasskeyById(id) IN
     req' = [req EXCEPT ![r] =
       IF existingPasskey = Null
         THEN [Idle EXCEPT !.kind = "delete", !.pc = "done", !.outcome = "NotFound",
                           !.resp = ErrorResponse]
         ELSE [Idle EXCEPT !.kind = "delete", !.pc = "delete_deletePasskey",
                           !.pk = existingPasskey]]
  /\ UNCHANGED <<wired, now, sessions, sessTtl, passkeys, users, nextSid, nextPid,
                 userCredentials, succeeded, issued, config>>

\* ... then await storage.deletePasskey(id): KVStorage deletes the key and
\* returns true, and the route answers success
DeleteDeletePasskey(r) ==
  /\ req[r].pc = "delete_deletePasskey"
  /\ passkeys' = Without(passkeys, req[r].pk.id)
  /\ req' = [req EXCEPT ![r].pc = "done", ![r].outcome = "ok", ![r].wrote = TRUE,
                        ![r].resp = [ErrorResponse EXCEPT !.success = TRUE,
                                                          !.user = req[r].pk.userId]]
  /\ UNCHANGED <<wired, now, sessions, sessTtl, users, nextSid, nextPid, userCredentials,
                 succeeded, issued, config>>

\* A login/complete and a DELETE /:id in flight together, within one tick of the
\* clock, over the kv store.
NextDelete ==
  \/ \E u \in AuthBeginUsers, p \in Platforms :
       nextSid <= MaxSessions /\ generateAuthenticationOptions(u, p)
  \/ Authentication("r1")
  \/ Respond("r1")
  \/ \E id \in 0..MaxPasskeys : DeleteGetPasskeyById("r2", id)
  \/ DeleteDeletePasskey("r2")
  \/ Respond("r2")

SpecDelete == InitConc /\ [][NextDelete]_vars

(***************************************************************************)
(* JSONStorage: passkeys.  `passkeys` is then the content of passkeys.json.*)
(* Every method reads the whole file (await readJSON), changes its copy    *)
(* and writes the whole copy back (await writeJSON); other requests run    *)
(* between the two.  A slot holds the copy in tmp.file.                    *)
(***************************************************************************)
\* a second passkey, of u1, that an earlier registration left in the file
EnrolledSecond == [Enrolled EXCEPT !.id = 1, !.userId = "u1", !.credentialID = "c2"]

PasskeyIds == {0, 1}

\* the passkeyData a caller hands to savePasskey for the passkey `id`
FilePasskeyData(id, counter) ==
  [(IF id = 0 THEN Enrolled ELSE EnrolledSecond) EXCEPT !.counter = counter]

JsonPasskeyOps == {"savePasskey", "updatePasskeyLastUsed", "deletePasskey"}

\* const passkeys = await this.readJSON(this.passkeyFile)
JsonReadPasskeys(r, op, id, counter) ==
  /\ req[r].pc = "idle"
  /\ req' = [req EXCEPT ![r] = [Idle EXCEPT !.kind = op, !.pc = "file_write",
                                            !.pk = FilePasskeyData(id, counter),
                                            !.tmp = [file |-> passkeys]]]
  /\ UNCHANGED <<wired, now, sessions, sessTtl, passkeys, users, nextSid, nextPid,
                 userCredentials, succeeded, issued, config>>

\* the copy as the method changes it
JsonChangedCopy(op, file, passkeyData) ==
  LET id == passkeyData.id IN
  CASE op = "savePasskey" ->
         (id :> [passkeyData EXCEPT !.createdAt = now, !.lastUsed = now]) @@ file
    [] op = "updatePasskeyLastUsed" ->
         IF id \in DOMAIN file THEN [file EXCEPT ![id].lastUsed = now] ELSE file
    [] OTHER -> Without(file, id)

\* whether the method reaches writeJSON: deletePasskey and updatePasskeyLastUsed
\* return false without writing when the id is not in the copy
JsonWrites(op, file, id) == op = "savePasskey" \/ id \in DOMAIN file

\* return await this.writeJSON(this.passkeyFile, passkeys)
JsonWritePasskeys(r) ==
  /\ req[r].pc = "file_write"
  /\ LET op == req[r].kind
         file == req[r].tmp.file
         id == req[r].pk.id
     IN /\ passkeys' = IF JsonWrites(op, file, id) THEN JsonChangedCopy(op, file, req[r].pk)
                       ELSE passkeys
        /\ req' = [req EXCEPT ![r].pc = "done", ![r].tmp = Null,
                              ![r].wrote = JsonWrites(op, file, id),
                              ![r].outcome = IF JsonWrites(op, file, id) THEN "ok" ELSE "false"]
  /\ UNCHANGED <<wired, now, sessions, sessTtl, users, nextSid, nextPid,
                 userCredentials, succeeded, issued, config>>

\* Two JSONStorage passkey methods in flight, within one tick of the clock.
NextFile ==
  \/ \E r \in ReqIds, op \in JsonPasskeyOps, id \in PasskeyIds, n \in 0..MaxCounter :
       JsonReadPasskeys(r, op, id, n)
  \/ \E r \in ReqIds : JsonWritePasskeys(r)
  \/ \E r \in ReqIds : Respond(r)

InitFile ==
  /\ wired = "json"
  /\ now = 0
  /\ sessions = <<>>
  /\ sessTtl = <<>>
  /\ passkeys = (0 :> Enrolled) @@ (1 :> EnrolledSecond)
  /\ users = ("u2" :> EnrolledUser) @@ ("u1" :> [EnrolledUser EXCEPT !.id = "u1"])
  /\ nextSid = 1
  /\ nextPid = 2
  /\ req = [r \in ReqIds |-> Idle]
  /\ userCredentials = {"u2"}
  /\ succeeded = {}
  /\ issued = <<>>
  /\ config = Configured

SpecFile == InitFile /\ [][NextFile]_vars

(***************************************************************************)
(* JSONStorage: sessions with several requests in flight.  `sessions` is   *)
(* the content of sessions.json; saveChallenge, deleteChallenge and        *)
(* cleanupExpiredSessions each read the whole file (await readJSON),       *)
(* change their copy and write the whole copy back (await writeJSON).  A   *)
(* slot holds the copy in tmp.file and the time it was taken in tmp.at.    *)
(***************************************************************************)
\* the challengeData the begin operations hand to saveChallenge
FileChallengeData ==
  {[type |-> t, challenge |-> nextSid, userId |-> "u1", username |-> "", displayName |-> "",
    platform |-> "web"] : t \in {"registration", "authentication"}}

\* saveChallenge of a begin operation: const sessions = await this.readJSON(...)
JsonSaveChallengeRead(r, challengeData) ==
  /\ req[r].pc = "idle"
  /\ nextSid <= MaxConcSessions
  /\ nextSid' = nextSid + 1
  /\ req' = [req EXCEPT ![r] = [Idle EXCEPT !.kind = "saveChallenge", !.pc = "sessions_write",
                                            !.sid = nextSid, !.chal = NewSession(challengeData),
                                            !.tmp = [file |-> sessions, at |-> now]]]
  /\ UNCHANGED <<wired, now, sessions, sessTtl, passkeys, users, nextPid,
                 userCredentials, succeeded, issued, config>>

\* deleteChallenge at the end of a completion that verified: readJSON
JsonDeleteChallengeRead(r, sid) ==
  /\ req[r].pc = "idle"
  /\ sid \in DOMAIN issued
  /\ req' = [req EXCEPT ![r] = [Idle EXCEPT !.kind = "deleteChallenge", !.pc = "sessions_write",
                                            !.sid = sid,
                                            !.tmp = [file |-> sessions, at |-> now]]]
  /\ UNCHANGED <<wired, now, sessions, sessTtl, passkeys, users, nextSid, nextPid,
                 userCredentials, succeeded, issued, config>>

\* cleanupExpiredSessions: readJSON, and `const now = new Date()`
JsonCleanupRead(r) ==
  /\ req[r].pc = "idle"
  /\ req' = [req EXCEPT ![r] = [Idle EXCEPT !.kind = "cleanup", !.pc = "sessions_write",
                                            !.tmp = [file |-> sessions, at |-> now]]]
  /\ UNCHANGED <<wired, now, sessions, sessTtl, passkeys, users, nextSid, nextPid,
                 userCredentials, succeeded, issued, config>>

\* the sessions of the copy that the sweep deletes from it
JsonCopySweepable(file, at) == {s \in DOMAIN file : file[s].expiresAt < at}

\* the copy as the method changes it
JsonChangedSessions(op, file, at, sid, session) ==
  CASE op = "saveChallenge" -> (sid :> session) @@ file
    [] op = "deleteChallenge" -> Without(file, sid)
    [] OTHER -> [s \in DOMAIN file \ JsonCopySweepable(file, at) |-> file[s]]

\* whether the method reaches writeJSON: deleteChallenge returns false without
\* writing when the id is not in its copy, the sweep writes only when it cleaned
JsonWritesSessions(op, file, at, sid) ==
  CASE op = "saveChallenge" -> TRUE
    [] op = "deleteChallenge" -> sid \in DOMAIN file
    [] OTHER -> JsonCopySweepable(file, at) # {}

\* return await this.writeJSON(this.sessionFile, sessions); the begin operation
\* then returns its sessionId, the completion its result
JsonWriteSessions(r) ==
  /\ req[r].pc = "sessions_write"
  /\ LET op == req[r].kind
         file == req[r].tmp.file
         at == req[r].tmp.at
         sid == req[r].sid
         writes == JsonWritesSessions(op, file, at, sid)
     IN /\ sessions' = IF writes THEN JsonChangedSessions(op, file, at, sid, req[r].chal)
                       ELSE sessions
        /\ issued' = IF op = "saveChallenge"
                       THEN (sid :> [type |-> req[r].chal.type,
                                     expiresAt |-> req[r].chal.expiresAt]) @@ issued
                       ELSE issued
        /\ succeeded' = IF op = "deleteChallenge" THEN succeeded \cup {sid} ELSE succeeded
        /\ req' = [req EXCEPT ![r].pc = "done", ![r].tmp = Null, ![r].chal = Null,
                              ![r].wrote = writes,
                              ![r].outcome = IF writes THEN "ok" ELSE "false"]
  /\ UNCHANGED <<wired, now, sessTtl, passkeys, users, nextSid, nextPid, userCredentials, config>>

\* the clock, for the file store
FileTick ==
  /\ now < MaxTime
  /\ now' = now + 1
  /\ UNCHANGED <<wired, sessions, sessTtl, passkeys, users, nextSid, nextPid, req,
                 userCredentials, succeeded, issued, config>>

\* Two JSONStorage session methods in flight while the clock runs.
NextSessionFile ==
  \/ \E r \in ReqIds, c \in FileChallengeData : JsonSaveChallengeRead(r, c)
  \/ \E r \in ReqIds, sid \in Issued : JsonDeleteChallengeRead(r, sid)
  \/ \E r \in ReqIds : JsonCleanupRead(r)
  \/ \E r \in ReqIds : JsonWriteSessions(r)
  \/ \E r \in ReqIds : Respond(r)
  \/ FileTick

InitSessionFile ==
  /\ wired = "json"
  /\ now = 0
  /\ sessions = <<>>
  /\ sessTtl = <<>>
  /\ passkeys = <<>>
  /\ users = <<>>
  /\ nextSid = 1
  /\ nextPid = 1
  /\ req = [r \in ReqIds |-> Idle]
  /\ userCredentials = {"u1"}
  /\ succeeded = {}
  /\ issued = <<>>
  /\ config = Configured

SpecSessionFile == InitSessionFile /\ [][NextSessionFile]_vars

(***************************************************************************)
(* The storage modules called directly, one call at a time: the passkey    *)
(* and session methods of KVStorage and of JSONStorage, each answered in   *)
(* one step.  The slot keeps the method, the id it was called with and     *)
(* what it returned.                                                       *)
(***************************************************************************)
\* what a storage call returned: true, false, a record or null
StoreAnswered(op, id, answer, found) ==
  [Idle EXCEPT !.kind = op, !.pc = "done", !.outcome = answer, !.tmp = [id |-> id],
               !.pk = found]

\* what deletePasskey returns: KVStorage `await kv.del(...); return true`,
\* JSONStorage true when the id was in the file and false when it was not
deletePasskeyAnswer(id) == IF wired = "kv" THEN TRUE ELSE id \in DOMAIN passkeys

\* what deleteChallenge returns, in the same way
deleteChallengeAnswer(sid) == IF wired = "kv" THEN TRUE ELSE sid \in DOMAIN sessions

Bool(b) == IF b THEN "true" ELSE "false"

StoreSavePasskey(r, id, counter) ==
  /\ req[r].pc = "idle"
  /\ savePasskey(id, FilePasskeyData(id, counter))
  /\ req' = [req EXCEPT ![r] = StoreAnswered("savePasskey", id, "true", Null)]
  /\ UNCHANGED <<wired, now, sessions, sessTtl, users, nextSid, nextPid, userCredentials,
                 succeeded, issued, config>>

StoreGetPasskeyById(r, id) ==
  /\ req[r].pc = "idle"
  /\ LET passkey == getPasskeyById(id) IN
     req' = [req EXCEPT ![r] =
              StoreAnswered("getPasskeyById", id,
                            IF passkey = Null THEN "null" ELSE "record", passkey)]
  /\ UNCHANGED <<wired, now, sessions, sessTtl, passkeys, users, nextSid, nextPid,
                 userCredentials, succeeded, issued, config>>

StoreDeletePasskey(r, id) ==
  /\ req[r].pc = "idle"
  /\ passkeys' = Without(passkeys, id)
  /\ req' = [req EXCEPT ![r] =
               StoreAnswered("deletePasskey", id, Bool(deletePasskeyAnswer(id)), Null)]
  /\ UNCHANGED <<wired, now, sessions, sessTtl, users, nextSid, nextPid, userCredentials,
                 succeeded, issued, config>>

StoreSaveChallenge(r, challengeData) ==
  /\ req[r].pc = "idle"
  /\ nextSid <= MaxConcSessions
  /\ SaveNewChallenge(challengeData)
  /\ req' = [req EXCEPT ![r] = StoreAnswered("saveChallenge", nextSid, "true", Null)]

StoreGetChallenge(r, sid) ==
  /\ req[r].pc = "idle"
  /\ getChallengeEffect(sid)
  /\ \E challengeData \in getChallenge(sid) :
       req' = [req EXCEPT ![r] =
                StoreAnswered("getChallenge", sid,
                              IF challengeData = Null THEN "null" ELSE "record", Null)]
  /\ UNCHANGED <<wired, now, passkeys, users, nextSid, nextPid, userCredentials,
                 succeeded, issued, config>>

StoreDeleteChallenge(r, sid) ==
  /\ req[r].pc = "idle"
  /\ deleteChallenge(sid)
  /\ req' = [req EXCEPT ![r] =
               StoreAnswered("deleteChallenge", sid, Bool(deleteChallengeAnswer(sid)), Null)]
  /\ UNCHANGED <<wired, now, passkeys, users, nextSid, nextPid, userCredentials,
                 succeeded, issued, config>>

\* Calls of the storage module one at a time, within one tick of the clock.
NextStore ==
  \/ \E id \in PasskeyIds, n \in 0..MaxCounter : StoreSavePasskey("r1", id, n)
  \/ \E id \in PasskeyIds : StoreGetPasskeyById("r1", id)
  \/ \E id \in PasskeyIds : StoreDeletePasskey("r1", id)
  \/ \E c \in FileChallengeData : StoreSaveChallenge("r1", c)
  \/ \E sid \in 1..MaxConcSessions : StoreGetChallenge("r1", sid)
  \/ \E sid \in 1..MaxConcSessions : StoreDeleteChallenge("r1", sid)
  \/ Respond("r1")

SpecStore == Init /\ [][NextStore]_vars

(***************************************************************************)
(* BackendService and the configuration: loadConfig, ensureConfigLoaded,   *)
(* the two update operations with their routes, and what a ceremony        *)
(* operation and the delegation read.  Requests run one at a time; the     *)
(* loads the constructors started may still be reading the file.           *)
(***************************************************************************)
\* initializeConfig: this.rpID = config.rpID || this.rpID, and so on
initializeConfig(service, webauthn) ==
  [rpID |-> IF webauthn.rpID # "" THEN webauthn.rpID ELSE service.rpID,
   origin |-> IF webauthn.origin # NoOrigin THEN webauthn.origin ELSE service.origin,
   timeout |-> IF webauthn.timeout # 0 THEN webauthn.timeout ELSE service.timeout]

\* loadConfig started by a constructor: fs.readFile reads the file ...
BootReadFile(l) ==
  /\ config.boot[l].pc = "start"
  /\ config' = [config EXCEPT !.boot[l] = Loader("read", config.file)]
  /\ UNCHANGED <<wired, now, sessions, sessTtl, passkeys, users, nextSid, nextPid, req,
                 userCredentials, succeeded, issued>>

\* ... and this.config = JSON.parse(configData); the load of the WebAuthnService
\* constructor is the one inside its initializeConfig, which then sets the settings
BootLoaded(l) ==
  /\ config.boot[l].pc = "read"
  /\ LET data == config.boot[l].data IN
     config' = [config EXCEPT !.boot[l] = Loader("done", Null),
                              !.cache = data,
                              !.service = IF l = "service"
                                            THEN initializeConfig(@, data.webauthn) ELSE @]
  /\ UNCHANGED <<wired, now, sessions, sessTtl, passkeys, users, nextSid, nextPid, req,
                 userCredentials, succeeded, issued>>

\* parseInt of the body's timeout
ParseInt(str) == IF str = "30000" THEN 30000 ELSE 0

\* the bodies of PUT /api/auth/config
ConfigBodies ==
  [rpID : {"", "yourdomain.com"}, origin : {NoOrigin, <<"https://", "yourdomain.com">>},
   timeout : {"", "30000", "0"}]

\* const updates = {}; if (rpID) updates.rpID = rpID; ... if (timeout)
\* updates.timeout = parseInt(timeout)
UpdatesOf(body) ==
  [k \in {x \in ConfigKeys : \/ x = "rpID" /\ body.rpID # ""
                             \/ x = "origin" /\ body.origin # NoOrigin
                             \/ x = "timeout" /\ body.timeout # ""} |->
     CASE k = "rpID" -> body.rpID
       [] k = "origin" -> body.origin
       [] OTHER -> ParseInt(body.timeout)]

\* { ...this.config.webauthn, ...newConfig }
Merged(webauthn, updates) ==
  [k \in ConfigKeys |-> IF k \in DOMAIN updates THEN updates[k] ELSE webauthn[k]]

\* what a request in the configuration routes keeps: the latest completed updates
\* when it started, its updates, the file content it read or is about to write,
\* and the values it used
ConfigFacts(updates) ==
  [expected |-> config.latest, updates |-> updates, data |-> Null, used |-> Null]

\* a request starts: a ceremony operation (await this.initializeConfig()), the
\* delegation (authenticateUser), PUT /config or PUT /users/:userId/credentials;
\* all of them come to ensureConfigLoaded, which loads when this.config is null
ConfigStart(r, kind, updates) ==
  /\ req[r].pc = "idle"
  /\ DOMAIN updates # {} => config.updates < MaxUpdates
  /\ config' = [config EXCEPT !.updates = IF DOMAIN updates # {} THEN @ + 1 ELSE @]
  /\ req' = [req EXCEPT ![r] =
       IF kind = "updateWebAuthnConfig" /\ DOMAIN updates = {}
         THEN [Idle EXCEPT !.kind = kind, !.pc = "done", !.outcome = "NoUpdates",
                           !.resp = ErrorResponse]
         ELSE [Idle EXCEPT !.kind = kind, !.tmp = ConfigFacts(updates),
                           !.pc = IF config.cache = Null THEN "cfg_readFile" ELSE "cfg_ready"]]
  /\ UNCHANGED <<wired, now, sessions, sessTtl, passkeys, users, nextSid, nextPid,
                 userCredentials, succeeded, issued>>

\* ensureConfigLoaded -> loadConfig: fs.readFile ...
ConfigReadFile(r) ==
  /\ req[r].pc = "cfg_readFile"
  /\ req' = [req EXCEPT ![r].pc = "cfg_parse", ![r].tmp.data = config.file]
  /\ UNCHANGED <<wired, now, sessions, sessTtl, passkeys, users, nextSid, nextPid,
                 userCredentials, succeeded, issued, config>>

\* ... and this.config = JSON.parse(configData)
ConfigParsed(r) ==
  /\ req[r].pc = "cfg_parse"
  /\ config' = [config EXCEPT !.cache = req[r].tmp.data]
  /\ req' = [req EXCEPT ![r].pc = "cfg_ready", ![r].tmp.data = Null]
  /\ UNCHANGED <<wired, now, sessions, sessTtl, passkeys, users, nextSid, nextPid,
                 userCredentials, succeeded, issued>>

\* initializeConfig of a ceremony operation: getWebAuthnConfig returns
\* this.config.webauthn and the settings are set from it
CeremonyInitializeConfig(r) ==
  /\ req[r].pc = "cfg_ready" /\ req[r].kind = "ceremony"
  /\ config' = [config EXCEPT !.service = initializeConfig(@, config.cache.webauthn)]
  /\ req' = [req EXCEPT ![r].pc = "cfg_use"]
  /\ UNCHANGED <<wired, now, sessions, sessTtl, passkeys, users, nextSid, nextPid,
                 userCredentials, succeeded, issued>>

\* the operation goes on, after its storage calls, with this.rpID, this.origin and
\* this.timeout as they are then
CeremonyUses(r) ==
  /\ req[r].pc = "cfg_use"
  /\ req' = [req EXCEPT ![r].pc = "done", ![r].outcome = "ok",
                        ![r].tmp.used = config.service]
  /\ UNCHANGED <<wired, now, sessions, sessTtl, passkeys, users, nextSid, nextPid,
                 userCredentials, succeeded, issued, config>>

\* authenticateUser: const userCredentials = this.config.userCredentials[userId]
DelegationUses(r) ==
  /\ req[r].pc = "cfg_ready" /\ req[r].kind = "delegation"
  /\ req' = [req EXCEPT ![r].pc = "done", ![r].outcome = "ok",
                        ![r].tmp.used = [credentials |-> config.cache.userCredentials["u1"]]]
  /\ UNCHANGED <<wired, now, sessions, sessTtl, passkeys, users, nextSid, nextPid,
                 userCredentials, succeeded, issued, config>>

\* updateWebAuthnConfig: this.config.webauthn = {...}, and JSON.stringify(this.config)
\* for the write; updateUserCredentials: this.config.userCredentials[userId] = credentials
UpdateApplied(r) ==
  /\ req[r].pc = "cfg_ready"
  /\ req[r].kind \in {"updateWebAuthnConfig", "updateUserCredentials"}
  /\ LET updates == req[r].tmp.updates
         changed == IF req[r].kind = "updateWebAuthnConfig"
                      THEN [config.cache EXCEPT !.webauthn = Merged(@, updates)]
                      ELSE [config.cache EXCEPT !.userCredentials["u1"] = updates.credentials]
     IN /\ config' = [config EXCEPT !.cache = changed]
        /\ req' = [req EXCEPT ![r].pc = "cfg_writeFile", ![r].tmp.data = changed]
  /\ UNCHANGED <<wired, now, sessions, sessTtl, passkeys, users, nextSid, nextPid,
                 userCredentials, succeeded, issued>>

\* await fs.writeFile(configPath, ...) returns, and the update operation with it
UpdateWritten(r) ==
  /\ req[r].pc = "cfg_writeFile"
  /\ LET updates == req[r].tmp.updates IN
     config' = [config EXCEPT
                  !.file = req[r].tmp.data,
                  !.latest = [k \in DOMAIN @ |->
                                IF k \in DOMAIN updates THEN [v |-> updates[k]] ELSE @[k]]]
  /\ req' = [req EXCEPT ![r].pc = "done", ![r].outcome = "ok", ![r].wrote = TRUE,
                        ![r].tmp.data = Null,
                        ![r].resp = [ErrorResponse EXCEPT !.success = TRUE]]
  /\ UNCHANGED <<wired, now, sessions, sessTtl, passkeys, users, nextSid, nextPid,
                 userCredentials, succeeded, issued>>

\* the credentials PUT /users/:userId/credentials stores
NewCredentials == [credentials |-> "new-password"]
NoUpdates == [k \in {} |-> Null]

\* One request at a time, from the start of the process.
NextConfig ==
  \/ \E l \in {"backend", "service"} : BootReadFile(l)
  \/ \E l \in {"backend", "service"} : BootLoaded(l)
  \/ \E kind \in {"ceremony", "delegation"} : ConfigStart("r1", kind, NoUpdates)
  \/ \E body \in ConfigBodies : ConfigStart("r1", "updateWebAuthnConfig", UpdatesOf(body))
  \/ ConfigStart("r1", "updateUserCredentials", NewCredentials)
  \/ ConfigReadFile("r1")
  \/ ConfigParsed("r1")
  \/ CeremonyInitializeConfig("r1")
  \/ CeremonyUses("r1")
  \/ DelegationUses("r1")
  \/ UpdateApplied("r1")
  \/ UpdateWritten("r1")
  \/ Respond("r1")

\* the constructors have run: this.config is null and both loads have started
InitConfig ==
  /\ wired = "kv"
  /\ now = 0
  /\ sessions = <<>>
  /\ sessTtl = <<>>
  /\ passkeys = <<>>
  /\ users = <<>>
  /\ nextSid = 1
  /\ nextPid = 1
  /\ req = [r \in ReqIds |-> Idle]
  /\ userCredentials = {"u1"}
  /\ succeeded = {}
  /\ issued = <<>>
  /\ config = [Configured EXCEPT
                 !.cache = Null,
                 !.boot = [l \in {"backend", "service"} |-> Loader("start", Null)]]

SpecConfig == InitConfig /\ [][NextConfig]_vars

(***************************************************************************)
(* The begin routes on their own: POST /register/begin and POST            *)
(* /login/begin over a store that earlier registrations have filled.  A    *)
(* request is answered in one step: with one request at a time nothing     *)
(* runs between getPasskeys and saveChallenge.                             *)
(***************************************************************************)
\* a passkey of u1 that was registered with an empty transport list
EnrolledBare ==
  [Enrolled EXCEPT !.id = 2, !.userId = "u1", !.credentialID = "c3", !.transports = <<>>,
                   !.platform = "android"]

EnrolledUserSecond == [EnrolledUser EXCEPT !.id = "u1"]

\* what the store may hold when a begin request arrives
StoreSamples ==
  {[passkeys |-> <<>>, users |-> <<>>],
   [passkeys |-> (0 :> Enrolled), users |-> ("u2" :> EnrolledUser)],
   [passkeys |-> (0 :> Enrolled) @@ (1 :> EnrolledSecond) @@ (2 :> EnrolledBare),
    users |-> ("u2" :> EnrolledUser) @@ ("u1" :> EnrolledUserSecond)]}

\* the entry of excludeCredentials or allowCredentials for a stored passkey
CredentialDescriptor(passkey, platform) ==
  [id |-> passkey.credentialID, type |-> "public-key",
   transports |-> getTransportsForPlatform(SomeTransports(passkey.transports), platform)]

\* existingPasskeys.map(...): one entry for each passkey, here under the passkey's id
Descriptors(found, platform) ==
  [k \in {q.id : q \in found} |-> CredentialDescriptor(passkeys[k], platform)]

\* registration options that exclude the passkeys of every user
RegistrationOptionsExcludeAll(userId, platform) ==
  [challenge |-> nextSid,
   excludeCredentials |-> Descriptors(getPasskeys(NoUser), platform),
   authenticatorSelection |-> getAuthenticatorSelection(platform)]

\* the options generateRegistrationOptions returns
RegistrationOptions(userId, platform) ==
  [challenge |-> nextSid,
   excludeCredentials |-> Descriptors(getPasskeys(userId), platform),
   authenticatorSelection |-> getAuthenticatorSelection(platform)]

\* authentication options that list the passkeys of every user
AuthenticationOptionsListAll(userId, platform) ==
  LET allowCredentials == Descriptors(getPasskeys(NoUser), platform) IN
  [challenge |-> nextSid,
   allowCredentials |-> [present |-> DOMAIN allowCredentials # {}, list |-> allowCredentials]]

\* the options generateAuthenticationOptions returns: getPasskeys(userId) with a
\* userId and getPasskeys() without; allowCredentials is undefined when the list
\* is empty
AuthenticationOptions(userId, platform) ==
  LET allowCredentials == Descriptors(getPasskeys(userId), platform) IN
  [challenge |-> nextSid,
   allowCredentials |-> [present |-> DOMAIN allowCredentials # {}, list |-> allowCredentials]]

\* the request of a begin route once it is answered
BeginAnswered(kind, userId, platform, body, options) ==
  [Idle EXCEPT !.kind = kind, !.pc = "done", !.outcome = "ok", !.sid = nextSid,
               !.userId = userId, !.platform = platform, !.body = body, !.options = options,
               !.resp = [ErrorResponse EXCEPT !.success = TRUE]]

\* POST /register/begin
RegisterBegin(r, userId, username, displayName, platform, userAgent) ==
  /\ req[r].pc = "idle"
  /\ nextSid <= MaxBegins
  /\ LET detectedPlatform == detectPlatform(userAgent, platform) IN
     /\ SaveNewChallenge(
          [type |-> "registration", challenge |-> nextSid, userId |-> userId,
           username |-> username, displayName |-> displayName,
           platform |-> detectedPlatform])
     /\ req' = [req EXCEPT ![r] =
          BeginAnswered("register_begin", userId, detectedPlatform,
                        [userId |-> userId, username |-> username, platform |-> platform,
                         userAgent |-> userAgent],
                        RegistrationOptions(userId, detectedPlatform))]

\* `allUsers.find(u => u.username === username)?.id`: the users find() may return,
\* in the order of kv.keys, or none
FindUserByName(username) ==
  LET matches == {users[u].id : u \in {x \in DOMAIN users : users[x].username = username}}
  IN IF matches = {} THEN {NoUser} ELSE matches

\* the validation schema of login/begin wants a userId or a username
LoginBeginValid(userId, username) == userId # NoUser \/ username # ""

\* POST /login/begin
LoginBegin(r, userId, username, platform, userAgent) ==
  /\ req[r].pc = "idle"
  /\ nextSid <= MaxBegins
  /\ LoginBeginValid(userId, username)
  /\ \E targetUserId \in (IF userId # NoUser \/ username = "" THEN {userId}
                           ELSE FindUserByName(username)) :
       LET detectedPlatform == detectPlatform(userAgent, platform) IN
       /\ SaveNewChallenge(
            [type |-> "authentication", challenge |-> nextSid, userId |-> targetUserId,
             username |-> "", displayName |-> "", platform |-> detectedPlatform])
       /\ req' = [req EXCEPT ![r] =
            BeginAnswered("login_begin", targetUserId, detectedPlatform,
                          [userId |-> userId, username |-> username, platform |-> platform,
                           userAgent |-> userAgent],
                          AuthenticationOptions(targetUserId, detectedPlatform))]

\* what the body and the User-Agent header of a begin request may be
BodyPlatforms == {""} \cup Platforms
BodyUsernames == {"", "a@b.com", "nobody"}
RouteUserAgents == {<<>>, <<"Mozilla", "Android">>}

NextBegin ==
  \/ \E u \in Users, n \in Usernames, d \in DisplayNames, p \in BodyPlatforms,
        ua \in RouteUserAgents : RegisterBegin("r1", u, n, d, p, ua)
  \/ \E u \in {NoUser} \cup Users, n \in BodyUsernames, p \in BodyPlatforms,
        ua \in RouteUserAgents : LoginBegin("r1", u, n, p, ua)
  \/ Respond("r1")

InitBegin ==
  /\ wired \in {"kv", "json"}
  /\ now = 0
  /\ sessions = <<>>
  /\ sessTtl = <<>>
  /\ \E st \in StoreSamples : passkeys = st.passkeys /\ users = st.users
  /\ nextSid = 1
  /\ nextPid = 3
  /\ req = [r \in ReqIds |-> Idle]
  /\ userCredentials = {"u2"}
  /\ succeeded = {}
  /\ issued = <<>>
  /\ config = Configured

SpecBegin == InitBegin /\ [][NextBegin]_vars

(***************************************************************************)
(* isValidOrigin on its own: the call is made with one origin and one      *)
(* platform name out of the samples, and its result is the outcome.        *)
(***************************************************************************)
OriginTokens == {"http://", "https://", "android:", "apk-key-hash:", "ios:", "bundle-id:", "x"}

SeqsUpTo(S, n) == UNION {[1..k -> S] : k \in 0..n}

OriginSamples == SeqsUpTo(OriginTokens, MaxOriginLen) \cup AllowedOrigins

PlatformSamples == {"web", "android", "ios", "Android", "IOS", "Web", "desktop", ""}

InitOrigin ==
  /\ wired = "kv"
  /\ now = 0
  /\ sessions = <<>>
  /\ sessTtl = <<>>
  /\ passkeys = <<>>
  /\ users = <<>>
  /\ nextSid = 1
  /\ nextPid = 1
  /\ \E o \in OriginSamples, p \in PlatformSamples :
       req = [r \in ReqIds |->
                IF r = "r1" THEN [Idle EXCEPT !.kind = "isValidOrigin", !.pc = "origin_check",
                                              !.origin = o, !.platform = p]
                ELSE Idle]
  /\ userCredentials = {"u2"}
  /\ succeeded = {}
  /\ issued = <<>>
  /\ config = Configured

IsValidOriginCall(r) ==
  /\ req[r].pc = "origin_check"
  /\ req' = [req EXCEPT ![r].pc = "done",
                        ![r].outcome = IF isValidOrigin(req[r].origin, req[r].platform)
                                         THEN "valid" ELSE "invalid"]
  /\ UNCHANGED <<wired, now, sessions, sessTtl, passkeys, users, nextSid, nextPid,
                 userCredentials, succeeded, issued, config>>

NextOrigin == IsValidOriginCall("r1")

SpecOrigin == InitOrigin /\ [][NextOrigin]_vars

(***************************************************************************)
(* The platform policy on its own: detectPlatform, getAuthenticatorSelection*)
(* and getTransportsForPlatform, each called once with arguments out of the*)
(* samples; the result is kept in the slot.                                *)
(***************************************************************************)
UaTokens == {"Mozilla", "Linux", "Android", "android", "iPhone", "iPad", "iPod"}

UserAgentSamples == SeqsUpTo(UaTokens, MaxUaLen)

\* the explicitPlatform argument: none, or a name in some spelling
ExplicitSamples == {"", "web", "android", "ios", "Android", "IOS", "desktop"}

\* the originalTransports argument: null, an empty array, or an array of transports
TransportSamples ==
  {NoTransports, SomeTransports(<<>>), SomeTransports(<<"usb">>),
   SomeTransports(<<"hybrid", "internal">>), SomeTransports(<<"internal", "hybrid">>)}

PolicyCalls ==
  {[fn |-> "detectPlatform", userAgent |-> ua, platform |-> p, transports |-> NoTransports] :
     ua \in UserAgentSamples, p \in ExplicitSamples}
  \cup {[fn |-> "getAuthenticatorSelection", userAgent |-> <<>>, platform |-> p,
         transports |-> NoTransports] : p \in PlatformSamples}
  \cup {[fn |-> "getTransportsForPlatform", userAgent |-> <<>>, platform |-> p,
         transports |-> t] : p \in PlatformSamples, t \in TransportSamples}

InitPolicy ==
  /\ wired = "kv"
  /\ now = 0
  /\ sessions = <<>>
  /\ sessTtl = <<>>
  /\ passkeys = <<>>
  /\ users = <<>>
  /\ nextSid = 1
  /\ nextPid = 1
  /\ \E c \in PolicyCalls :
       req = [r \in ReqIds |->
                IF r = "r1" THEN [Idle EXCEPT !.kind = c.fn, !.pc = "policy_call", !.body = c]
                ELSE Idle]
  /\ userCredentials = {"u2"}
  /\ succeeded = {}
  /\ issued = <<>>
  /\ config = Configured

\* the call returns; options holds what it returned
PolicyReturns(r, fn, result) ==
  /\ req[r].pc = "policy_call"
  /\ req[r].kind = fn
  /\ req' = [req EXCEPT ![r].pc = "done", ![r].options = [result |-> result]]
  /\ UNCHANGED <<wired, now, sessions, sessTtl, passkeys, users, nextSid, nextPid,
                 userCredentials, succeeded, issued, config>>

DetectPlatformCall(r) ==
  PolicyReturns(r, "detectPlatform", detectPlatform(req[r].body.userAgent, req[r].body.platform))

AuthenticatorSelectionCall(r) ==
  PolicyReturns(r, "getAuthenticatorSelection", getAuthenticatorSelection(req[r].body.platform))

TransportsForPlatformCall(r) ==
  PolicyReturns(r, "getTransportsForPlatform",
                getTransportsForPlatform(req[r].body.transports, req[r].body.platform))

NextPolicy ==
  \/ DetectPlatformCall("r1")
  \/ AuthenticatorSelectionCall("r1")
  \/ TransportsForPlatformCall("r1")

SpecPolicy == InitPolicy /\ [][NextPolicy]_vars

(***************************************************************************)
(* Properties                                                              *)
(***************************************************************************)
\* a request that is past the session check and has not yet answered
Proceeded(r) == req[r].pc \notin {"idle", "done"}

\* C1: of the completion calls that run concurrently on one sessionId only one
\* observes the session and proceeds; no two requests are past the session check
\* on the same session at the same time.
C1_OneConcurrentCompletionProceeds ==
  \A r, q \in ReqIds :
    (r # q /\ Proceeded(r) /\ Proceeded(q)) => req[r].sid # req[q].sid

\* C2: a completion call made on a sessionId after a completion call on it has
\* succeeded fails with the invalid-or-expired-session error, has written nothing and
\* is answered with an error.
C2_SessionIsSingleUse ==
  \A r \in ReqIds :
    (req[r].afterSuccess /\ req[r].pc # "idle") =>
      /\ req[r].pc = "done"
      /\ req[r].outcome = "SessionInvalid"
      /\ ~req[r].wrote
      /\ ~req[r].resp.success

C2_Witness ==
  \E r \in ReqIds : req[r].afterSuccess /\ req[r].pc = "done" /\ req[r].outcome = "SessionInvalid"

LaterFailures == {"UserMismatch", "InvalidOrigin", "CredentialNotFound", "VerificationFailed"}

\* C3: once a completion call has failed with UserMismatch, InvalidOrigin,
\* CredentialNotFound or a verification failure, its session is gone from the store.
C3_FailedCompletionConsumesSession ==
  \A r \in ReqIds :
    (req[r].pc = "done" /\ req[r].outcome \in LaterFailures) => req[r].sid \notin DOMAIN sessions

\* C4: the step in which a completion call ends in an error changes neither the
\* passkeys nor the users, the call has written nothing before it, and every change
\* of the passkeys or the users is the step of a call that counts as having written.
C4_FailedCompletionWritesNothing ==
  [][/\ \A r \in ReqIds :
          (req[r].pc # "done" /\ req'[r].pc = "done" /\ req'[r].outcome # "ok") =>
            (~req[r].wrote /\ ~req'[r].wrote /\ passkeys' = passkeys /\ users' = users)
     /\ (passkeys' # passkeys \/ users' # users) =>
          \E r \in ReqIds : req'[r].wrote /\ req'[r].pc # req[r].pc]_vars

C4_Witness ==
  \E r \in ReqIds : req[r].pc = "done" /\ req[r].outcome = "VerificationFailed"

\* C5: a login/complete whose passkey verification succeeded answers success = true
\* with the authenticated user, whatever the backend delegation did.
C5_DelegationNeverFailsLogin ==
  \A r \in ReqIds :
    (req[r].kind = "auth" /\ req[r].pc = "done" /\ req[r].outcome = "ok") =>
      (req[r].resp.success /\ req[r].resp.user = req[r].pk.userId)

C5_Witness ==
  \E r \in ReqIds :
    /\ req[r].kind = "auth" /\ req[r].pc = "done" /\ req[r].outcome = "ok"
    /\ req[r].resp.backend = "service_unavailable"

\* the expected origin as C6 states it
ClaimedExpectedOrigin(origin, platform) ==
  IF platform # "web" /\ origin # NoOrigin THEN origin ELSE ServiceOrigin

\* C6: the expected origin handed to the verification primitive is the caller's
\* origin only when the platform is not web and an origin was supplied (and was
\* valid); for platform web, or with no origin, it is the configured default origin.
C6_ExpectedOriginPolicy ==
  \A r \in ReqIds :
    req[r].pc \in {"reg_verify", "auth_verify"} =>
      req[r].expOrigin = ClaimedExpectedOrigin(req[r].origin, req[r].platform)

\* C7: a session whose expiresAt is in the past is not found by getChallenge, and a
\* completion call made on it fails with the invalid-or-expired-session error, with
\* the kv store and with the file store, swept or not.
C7_ExpiredIsAbsent ==
  /\ \A sid \in DOMAIN issued : now > issued[sid].expiresAt => getChallenge(sid) = {Null}
  /\ \A r \in ReqIds :
       (req[r].expiredAtCall /\ req[r].pc # "idle") =>
         (req[r].pc = "done" /\ req[r].outcome = "SessionInvalid")

C7_Witness ==
  \E r \in ReqIds : wired = "json" /\ req[r].expiredAtCall /\ req[r].pc = "done"

WrongType(r) ==
  \/ req[r].kind = "auth" /\ req[r].typeAtCall = "registration"
  \/ req[r].kind = "reg" /\ req[r].typeAtCall = "authentication"

\* C8: a completion call made on a session of the other ceremony fails with the
\* invalid-or-expired-session error and never calls the verification primitive.
C8_SessionTypeEnforced ==
  \A r \in ReqIds :
    (req[r].pc # "idle" /\ WrongType(r)) =>
      (req[r].pc = "done" /\ req[r].outcome = "SessionInvalid" /\ ~req[r].calledPrim)

C8_Witness ==
  \E r \in ReqIds :
    req[r].kind = "auth" /\ req[r].typeAtCall = "registration" /\ req[r].pc = "done"

\* C9: the stored signature counter of a credential that is not backed up never
\* decreases.
C9_CounterNeverDecreases ==
  [][\A id \in DOMAIN passkeys \cap DOMAIN passkeys' :
       ~passkeys[id].credentialBackedUp => passkeys'[id].counter >= passkeys[id].counter]_vars

\* C10: the lastUsed refresh of an authenticationComplete leaves the stored counter
\* of the credential as it finds it: it never writes back a counter read before
\* another call's write.
C10_TouchKeepsCounter ==
  [][\A r \in ReqIds :
       (req[r].pc = "auth_touch_set" /\ req'[r].pc = "auth_deleteChallenge"
          /\ req[r].pk.id \in DOMAIN passkeys) =>
         passkeys'[req[r].pk.id].counter = passkeys[req[r].pk.id].counter]_vars

\* C11: a write for one credential leaves every other credential in the repository
\* as it finds it: the step in which a request writes the passkey X neither removes,
\* restores nor changes the record of a passkey other than X.
C11_OtherCredentialsUntouched ==
  [][\A r \in ReqIds :
       (req[r].pc = "file_write" /\ req'[r].pc = "done") =>
         \A id \in (DOMAIN passkeys \cup DOMAIN passkeys') \ {req[r].pk.id} :
           /\ id \in DOMAIN passkeys \cap DOMAIN passkeys'
           /\ passkeys'[id] = passkeys[id]]_vars

\* C12: the createdAt of a stored credential never changes: no step gives the
\* record of a passkey that is already stored another createdAt.
C12_CreatedAtImmutable ==
  [][\A id \in DOMAIN passkeys \cap DOMAIN passkeys' :
       passkeys'[id].createdAt = passkeys[id].createdAt]_vars

\* C13: no two stored passkeys have the same credential id.
C13_CredentialIdUnique ==
  \A a, b \in DOMAIN passkeys :
    a # b => passkeys[a].credentialID # passkeys[b].credentialID

\* a login/complete request that has called backendService.authenticateUser
Attempted(r) == req[r].kind = "auth" /\ req[r].backendCalls > 0

\* a login/complete request that has answered after verifyAuthentication returned
LoginAnswered(r) == req[r].kind = "auth" /\ req[r].pc = "done" /\ req[r].outcome = "ok"

\* C14: the backend sign-in call is made at most once in a request, only after
\* verifyAuthentication has returned verified in it and only when skipBackendAuth
\* is not set; a request that failed or opted out has made no call.
C14_DelegationOnlyAfterVerified ==
  \A r \in ReqIds :
    /\ req[r].backendCalls > 0 =>
         (req[r].kind = "auth" /\ req[r].outcome = "ok" /\ ~req[r].skipBackendAuth
            /\ req[r].backendCalls = 1)
    /\ (req[r].pc = "done" /\ (req[r].outcome # "ok" \/ req[r].skipBackendAuth)) =>
         req[r].backendCalls = 0

C14_Witness ==
  \E r \in ReqIds : LoginAnswered(r) /\ req[r].backendCalls = 1

\* the four outcomes C15 names
FourOutcomes == {"upstream_success", "upstream_failure", "network_failure", "no_credentials"}

\* the outcomes the route distinguishes beyond them
FurtherOutcomes == {"request_error", "service_error", "service_unavailable"}

\* whether the response is of the outcome c
IsOutcome(resp, c) ==
  CASE c = "upstream_success" -> resp.bsuccess = "true"
    [] c = "upstream_failure" -> resp.bsuccess = "false" /\ resp.error = "response"
    [] c = "network_failure" -> resp.bsuccess = "false" /\ resp.error = "network"
    [] c = "no_credentials" ->
         resp.bsuccess = "false" /\ resp.backend = "no_credentials_configured" /\ resp.hasUsers
    [] c = "request_error" -> resp.bsuccess = "false" /\ resp.error = "other"
    [] c = "service_error" -> resp.bsuccess = "false" /\ resp.backend = "service_error"
    [] OTHER -> resp.bsuccess = "false" /\ resp.backend = "service_unavailable"

\* C15 as stated: every attempted delegation that has been answered is of exactly
\* one of the four outcomes.
C15_ExactlyOneOfFour ==
  \A r \in ReqIds :
    (Attempted(r) /\ req[r].pc = "done") =>
      Cardinality({c \in FourOutcomes : IsOutcome(req[r].resp, c)}) = 1

\* C15 amended: every attempted delegation that has been answered is of exactly one
\* of seven outcomes: the four, a request that failed locally, a backend service
\* error, or the backend service being unavailable.
C15_ExactlyOneOfSeven ==
  \A r \in ReqIds :
    (Attempted(r) /\ req[r].pc = "done") =>
      Cardinality({c \in FourOutcomes \cup FurtherOutcomes : IsOutcome(req[r].resp, c)}) = 1

C15_Witness ==
  \E r \in ReqIds :
    Attempted(r) /\ req[r].pc = "done" /\ IsOutcome(req[r].resp, "service_unavailable")

\* C16: a login/complete whose verification succeeded, for a user for whom the
\* configuration that was read holds no credentials, answers success = true with
\* backendAuthentication.success = false, a message naming that userId and the
\* list of the configured userIds.
C16_MissingCredentialsReported ==
  \A r \in ReqIds :
    (Attempted(r) /\ req[r].pc = "done" /\ req[r].env.loaded2
       /\ req[r].pk.userId \notin userCredentials) =>
      /\ req[r].resp.success
      /\ req[r].resp.bsuccess = "false"
      /\ req[r].resp.messageUser = req[r].pk.userId
      /\ req[r].resp.hasUsers
      /\ req[r].resp.availableUsers = userCredentials

C16_Witness ==
  \E r \in ReqIds :
    /\ Attempted(r) /\ req[r].pc = "done" /\ req[r].env.loaded2
    /\ req[r].pk.userId \notin userCredentials

\* C17: every answer of a login/complete whose verification succeeded carries the
\* backendAuthentication field, with a warning when the delegation was attempted
\* and did not succeed and without one when it succeeded.
C17_SideChannelAndWarning ==
  \A r \in ReqIds :
    LoginAnswered(r) =>
      /\ req[r].resp.success /\ req[r].resp.attached
      /\ (Attempted(r) /\ req[r].resp.bsuccess = "false") => req[r].resp.warning
      /\ req[r].resp.bsuccess = "true" => ~req[r].resp.warning

C17_Witness ==
  \E r \in ReqIds :
    LoginAnswered(r) /\ Attempted(r) /\ req[r].resp.bsuccess = "false" /\ req[r].resp.warning

\* C18: a login/complete whose verification has succeeded is eventually answered,
\* whether or not the upstream ever replies.
C18_ResponseEventuallySent ==
  (req["r1"].pc \in {"login_delegate", "login_backend"}) ~> (req["r1"].pc = "done")

\* the answer to a sign-in the upstream never replied to: a network failure
C18_Witness ==
  /\ LoginAnswered("r1") /\ Attempted("r1")
  /\ req["r1"].env.axios = "no_response" /\ req["r1"].resp.error = "network"

\* a register/complete request for a session begun on a mobile platform, whose body
\* names that platform and a well-formed origin of it
MobileWellFormed(r) ==
  /\ req[r].body # Null
  /\ req[r].body.platform \in {"android", "ios"}
  /\ req[r].sid \in DOMAIN sessions
  /\ sessions[req[r].sid].platform = req[r].body.platform
  /\ StartsWith(req[r].body.origin,
                IF req[r].body.platform = "android" THEN AndroidPrefix ELSE IosPrefix)

\* C19: such a request is not rejected with InvalidOrigin, and the primitive is
\* called with the origin of the body as the expected origin.
C19_RouteUsesBodyOrigin ==
  \A r \in ReqIds :
    MobileWellFormed(r) =>
      /\ req[r].outcome # "InvalidOrigin"
      /\ req[r].pc = "reg_verify" => req[r].expOrigin = req[r].body.origin

\* the spellings of a platform
IsPlatform(p, name) ==
  CASE name = "android" -> p \in {"android", "Android"}
    [] name = "ios" -> p \in {"ios", "IOS"}
    [] OTHER -> p \in {"web", "Web"}

\* the validity C20 states
ClaimedValid(origin, platform) ==
  \/ origin \in AllowedOrigins
  \/ IsPlatform(platform, "android") /\ StartsWith(origin, AndroidPrefix)
  \/ IsPlatform(platform, "ios") /\ StartsWith(origin, IosPrefix)
  \/ IsPlatform(platform, "web")
       /\ (StartsWith(origin, HttpPrefix) \/ StartsWith(origin, HttpsPrefix))

\* C20: isValidOrigin(origin, platform) is true exactly when the origin is in the
\* allow-list or has the prefix of the platform, and false for every other pair,
\* an unrecognised platform included.
C20_IsValidOriginExact ==
  \A r \in ReqIds :
    (req[r].kind = "isValidOrigin" /\ req[r].pc = "done") =>
      ((req[r].outcome = "valid") <=> ClaimedValid(req[r].origin, req[r].platform))

\* an origin with the android prefix is refused for an unrecognised platform
C20_Witness ==
  \E r \in ReqIds :
    /\ req[r].kind = "isValidOrigin" /\ req[r].pc = "done"
    /\ req[r].platform = "desktop" /\ StartsWith(req[r].origin, AndroidPrefix)
    /\ req[r].outcome = "invalid"

\* a transport list that declares no transport: absent, or empty
DeclaresNone(transports) == ~transports.present \/ transports.list = <<>>

\* a verifyRegistration that has returned verified for a session begun on Android,
\* the primitive reporting counter 0 and the response declaring no transports
AndroidRoundTrip(r) ==
  /\ req[r].kind = "reg" /\ req[r].pc = "done" /\ req[r].outcome = "ok"
  /\ req[r].sessPlatform = "android"
  /\ req[r].info.counter = 0
  /\ DeclaresNone(req[r].info.transports)

\* C21: after such a round trip getPasskeyById of the returned id finds the
\* credential, with the credential id the primitive reported, platform android,
\* counter 0 and the transports internal, hybrid, nfc, ble, usb.
C21_RegistrationRoundTrip ==
  \A r \in ReqIds :
    AndroidRoundTrip(r) =>
      LET stored == getPasskeyById(req[r].pk.id) IN
      /\ stored # Null
      /\ stored.credentialID = req[r].info.credentialID
      /\ stored.platform = "android"
      /\ stored.counter = 0
      /\ stored.transports = <<"internal", "hybrid", "nfc", "ble", "usb">>

\* the steps of verifyAuthentication that write the matched credential
WritesMatched(r) == req[r].pc \in {"auth_savePasskey", "auth_touch_set"}

\* C22: a verified authentication sets the stored counter of the matched credential
\* to the newCounter the primitive reported and its lastUsed to the present time,
\* and changes no other field of it and no other credential.
C22_AuthenticationUpdatesCounterOnly ==
  [][\A r \in ReqIds :
       /\ (req[r].kind = "auth" /\ ~WritesMatched(r)) => passkeys' = passkeys
       /\ (WritesMatched(r) /\ req'[r].pc # req[r].pc) =>
            LET id == req[r].pk.id IN
            /\ DOMAIN passkeys' = DOMAIN passkeys
            /\ \A other \in DOMAIN passkeys \ {id} : passkeys'[other] = passkeys[other]
            /\ passkeys'[id] = [passkeys[id] EXCEPT !.counter = passkeys'[id].counter,
                                                    !.lastUsed = now]
            /\ req[r].pc = "auth_savePasskey" => passkeys'[id].counter = req[r].newCounter
            /\ req[r].pc = "auth_touch_set" => passkeys'[id].counter = passkeys[id].counter]_vars

\* C23: a verifyRegistration whose userId differs from the userId of the session it
\* found ends with UserMismatch before the primitive is called and before anything
\* is written; the credential a registration builds and stores is owned by the
\* userId of its session, which is the userId given at completion.
C23_UserMismatchRejected ==
  \A r \in ReqIds :
    (req[r].kind = "reg" /\ req[r].sessUser # "") =>
      /\ req[r].userId # req[r].sessUser =>
           /\ req[r].pc = "done" /\ req[r].outcome = "UserMismatch"
           /\ ~req[r].calledPrim /\ ~req[r].wrote
      /\ req[r].pk # Null =>
           /\ req[r].pk.userId = req[r].sessUser
           /\ req[r].pk.userId = req[r].userId
           /\ req[r].wrote => getPasskeyById(req[r].pk.id).userId = req[r].userId

C23_Witness ==
  \E r \in ReqIds :
    /\ req[r].kind = "reg" /\ req[r].sessUser = "u1" /\ req[r].userId = "u2"
    /\ req[r].pc = "done" /\ req[r].outcome = "UserMismatch"

\* whether a stored credential has the id of the responding credential
Stored(credentialId) ==
  \E id \in DOMAIN passkeys : passkeys[id].credentialID = credentialId

\* C24: a verifyAuthentication for a credential id that no stored credential has
\* ends with CredentialNotFound, without a call of the primitive and without a
\* write; a deleted credential is such a one.
C24_UnknownCredentialRejected ==
  \A r \in ReqIds :
    (req[r].kind = "auth" /\ req[r].credentialId # "" /\ ~Stored(req[r].credentialId)) =>
      /\ req[r].pc = "done" /\ req[r].outcome = "CredentialNotFound"
      /\ ~req[r].calledPrim /\ ~req[r].wrote

\* the credential of u2 has been deleted, and an authentication with it is refused
C24_Witness ==
  \E r \in ReqIds :
    /\ "u2" \in DOMAIN users /\ 0 \notin DOMAIN passkeys
    /\ req[r].kind = "auth" /\ req[r].credentialId = "c1"
    /\ req[r].pc = "done" /\ req[r].outcome = "CredentialNotFound"

\* the step in which a begin route answers
BeginStep(r) ==
  /\ req[r].pc = "idle"
  /\ req'[r].pc = "done"
  /\ req'[r].kind \in {"register_begin", "login_begin"}

\* C25: a begin operation adds exactly one session, of the type of the ceremony,
\* with the challenge of the options it returns, the userId and the platform, and
\* leaves the other sessions, the passkeys and the users as they are.
C25_BeginOnlyCreatesSession ==
  [][\A r \in ReqIds :
       BeginStep(r) =>
         LET sid == req'[r].sid IN
         /\ sid \notin DOMAIN sessions
         /\ DOMAIN sessions' = DOMAIN sessions \cup {sid}
         /\ \A s \in DOMAIN sessions : sessions'[s] = sessions[s]
         /\ sessions'[sid].type = IF req'[r].kind = "register_begin" THEN "registration"
                                  ELSE "authentication"
         /\ sessions'[sid].challenge = req'[r].options.challenge
         /\ sessions'[sid].userId = req'[r].userId
         /\ req'[r].kind = "register_begin" => sessions'[sid].userId = req'[r].body.userId
         /\ sessions'[sid].platform = req'[r].platform
         /\ passkeys' = passkeys
         /\ users' = users]_vars

\* a login/begin has been answered when a session was already there and passkeys
\* are stored
C25_Witness ==
  \E r \in ReqIds :
    /\ req[r].kind = "login_begin" /\ req[r].pc = "done"
    /\ Cardinality(DOMAIN sessions) = 2
    /\ sessions[req[r].sid].type = "authentication"
    /\ passkeys # <<>>

\* the stored passkeys of a user, by their ids
OwnedBy(userId) == {k \in DOMAIN passkeys : passkeys[k].userId = userId}

\* the stored passkeys the allow-list of the returned options has an entry for
AllowListed(r) ==
  IF req[r].options.allowCredentials.present
    THEN DOMAIN req[r].options.allowCredentials.list
    ELSE {}

\* a login/begin that has been answered; userId is the one authenticationBegin got
LoginBegun(r) == req[r].kind = "login_begin" /\ req[r].pc = "done"

\* C26 as stated: with a userId the allow-list is that user's stored credentials,
\* and with no userId it is empty.
C26_AllowListAsStated ==
  \A r \in ReqIds :
    LoginBegun(r) =>
      AllowListed(r) = IF req[r].userId # NoUser THEN OwnedBy(req[r].userId) ELSE {}

\* C26 amended: with a userId the allow-list is that user's stored credentials and
\* no other user's; with no userId it is every stored credential of every user; the
\* entries carry the credential ids, and a list without entries is left out.
C26_AllowListPerUserOrAll ==
  \A r \in ReqIds :
    LoginBegun(r) =>
      /\ AllowListed(r) = IF req[r].userId # NoUser THEN OwnedBy(req[r].userId)
                          ELSE DOMAIN passkeys
      /\ \A k \in AllowListed(r) :
           req[r].options.allowCredentials.list[k].id = passkeys[k].credentialID
      /\ req[r].options.allowCredentials.present <=> AllowListed(r) # {}

\* a login/begin without a userId has been answered with the credentials of two users
C26_Witness ==
  \E r \in ReqIds :
    /\ LoginBegun(r) /\ req[r].userId = NoUser
    /\ \E a, b \in AllowListed(r) : passkeys[a].userId # passkeys[b].userId

\* C27: the exclusion list of the options registrationBegin returns has one entry,
\* with the stored credential id, for each stored credential of the userId, and no
\* entry for a credential of another user.
C27_ExclusionListIsTheUsers ==
  \A r \in ReqIds :
    (req[r].kind = "register_begin" /\ req[r].pc = "done") =>
      /\ DOMAIN req[r].options.excludeCredentials = OwnedBy(req[r].userId)
      /\ \A k \in OwnedBy(req[r].userId) :
           req[r].options.excludeCredentials[k].id = passkeys[k].credentialID

\* a register/begin of u1 has been answered with the two credentials of u1 excluded
\* while a credential of u2 is stored
C27_Witness ==
  \E r \in ReqIds :
    /\ req[r].kind = "register_begin" /\ req[r].pc = "done" /\ req[r].userId = "u1"
    /\ Cardinality(DOMAIN req[r].options.excludeCredentials) = 2
    /\ OwnedBy("u2") # {}

\* a call of a policy function that has returned
Returned(r, fn) == req[r].kind = fn /\ req[r].pc = "done"

\* two names of the same platform, whatever the case of their letters
SamePlatform(a, b) ==
  a = b \/ \E name \in Platforms : IsPlatform(a, name) /\ IsPlatform(b, name)

\* the words that make a user-agent one of Android, and one of iOS
AndroidWords == {"android", "Android"}
AppleWords == {"iphone", "iPhone", "ipad", "iPad", "ipod", "iPod"}

HasWord(ua, words) == \E i \in 1..Len(ua) : ua[i] \in words

\* C28: detectPlatform returns the explicit platform when one is given, whatever
\* the user-agent; without one it returns android for a user-agent with android in
\* it, else ios for one with iphone, ipad or ipod in it, else web.
C28_DetectPlatform ==
  \A r \in ReqIds :
    Returned(r, "detectPlatform") =>
      LET explicit == req[r].body.platform
          ua == req[r].body.userAgent
          result == req[r].options.result
      IN IF explicit # "" THEN SamePlatform(result, explicit)
         ELSE IF HasWord(ua, AndroidWords) THEN result = "android"
         ELSE IF HasWord(ua, AppleWords) THEN result = "ios"
         ELSE result = "web"

\* the explicit platform ios wins over the user-agent of an Android device
C28_Witness ==
  \E r \in ReqIds :
    /\ Returned(r, "detectPlatform")
    /\ req[r].body.platform = "ios" /\ HasWord(req[r].body.userAgent, AndroidWords)
    /\ req[r].options.result = "ios"

\* C29: for every platform name the selection has residentKey preferred,
\* userVerification preferred and requireResidentKey false; it has
\* authenticatorAttachment platform for android and ios, and no
\* authenticatorAttachment for web and for any other name.
C29_AuthenticatorSelection ==
  \A r \in ReqIds :
    Returned(r, "getAuthenticatorSelection") =>
      LET platform == req[r].body.platform
          selection == req[r].options.result
          mobile == IsPlatform(platform, "android") \/ IsPlatform(platform, "ios")
      IN /\ selection.residentKey = "preferred"
         /\ selection.userVerification = "preferred"
         /\ selection.requireResidentKey = FALSE
         /\ ("authenticatorAttachment" \in DOMAIN selection) <=> mobile
         /\ mobile => selection.authenticatorAttachment = "platform"

C29_Witness ==
  \E r \in ReqIds :
    /\ Returned(r, "getAuthenticatorSelection")
    /\ req[r].body.platform = "desktop"
    /\ "authenticatorAttachment" \notin DOMAIN req[r].options.result

\* the default order of a platform as C30 states it
DefaultOrder(platform) ==
  IF IsPlatform(platform, "android") THEN <<"internal", "hybrid", "nfc", "ble", "usb">>
  ELSE IF IsPlatform(platform, "ios") THEN <<"internal", "hybrid">>
  ELSE <<"internal", "hybrid", "usb", "nfc", "ble">>

\* C30: getTransportsForPlatform returns the list of the credential unchanged when
\* it has at least one transport, and the default order of the platform when the
\* list is absent or empty.
C30_TransportsOrDefault ==
  \A r \in ReqIds :
    Returned(r, "getTransportsForPlatform") =>
      req[r].options.result =
        IF DeclaresNone(req[r].body.transports) THEN DefaultOrder(req[r].body.platform)
        ELSE req[r].body.transports.list

\* C34: an authentication session begun for a userId is completed only with a
\* credential of that user: the step in which verifyAuthentication takes the
\* primitive's verified result, on a session that names a user, is made with a
\* stored credential whose owner is that user, so the identity returned
\* (passkey.userId) is never another user's.
C34_SessionUserOwnsCredential ==
  [][\A r \in ReqIds :
       (/\ req[r].pc = "auth_verify" /\ req'[r].pc = "auth_savePasskey"
        /\ req[r].chal.userId # NoUser) =>
         req[r].pk.userId = req[r].chal.userId]_vars

\* the platform tag verifyRegistration stores is one of the two mobile ones
MobileTag(platform) == platform \in {"android", "ios"}

\* C35: every credential stored with the platform tag android or ios was
\* registered with an origin that was supplied and that passed isValidOrigin for
\* that same platform: the step in which verifyRegistration builds such a
\* credential is made by a call whose origin is not empty and is valid for the
\* platform the credential is tagged with.
C35_MobileTagMeansOriginChecked ==
  [][\A r \in ReqIds :
       (/\ req[r].pc = "reg_verify" /\ req'[r].pc = "reg_savePasskey"
        /\ MobileTag(req'[r].pk.platform)) =>
         (/\ req[r].origin # NoOrigin
          /\ isValidOrigin(req[r].origin, req'[r].pk.platform))]_vars

\* C38: a completion call made on a session of the other ceremony that is in the
\* store and has not expired ends with the invalid-or-expired-session error and
\* leaves the session store as it was, so the session is still there afterwards
\* (and a completion call of the right ceremony made on it next can succeed:
\* C38_Witness).
C38_WrongTypeKeepsSession ==
  [][\A r \in ReqIds :
       (/\ req[r].pc = "idle" /\ req'[r].pc # "idle" /\ WrongType(r)'
        /\ req'[r].sid \in DOMAIN sessions
        /\ getChallenge(req'[r].sid) # {Null}) =>
         (/\ req'[r].pc = "done" /\ req'[r].outcome = "SessionInvalid"
          /\ sessions' = sessions /\ sessTtl' = sessTtl
          /\ req'[r].sid \in DOMAIN sessions')]_vars

C38_Witness ==
  /\ req["r1"].pc = "done" /\ req["r1"].kind = "auth" /\ WrongType("r1")
  /\ req["r2"].kind = "reg" /\ req["r2"].outcome = "ok"
  /\ req["r2"].sid = req["r1"].sid

\* the session a completion call made on sid is about to read is usable, or is not
Usable(sid, type) == \A cd \in getChallenge(sid) : SessionUsable(cd, type)
Unusable(sid, type) == \A cd \in getChallenge(sid) : ~SessionUsable(cd, type)

\* the step in which request r makes its completion call
Called(r, kind) == req[r].pc = "idle" /\ req'[r].pc # "idle" /\ req'[r].kind = kind

\* C39: failures are reported in a fixed order.  verifyRegistration: an unusable
\* session is reported as such whatever else is wrong; on a usable session a
\* userId that differs from the session's is reported as UserMismatch whatever
\* the origin; InvalidOrigin is reported only when session and user passed; the
\* primitive is called only when session, user and origin passed.
\* verifyAuthentication: an unusable session is reported before the credential is
\* looked up; a credential that is not stored is reported as CredentialNotFound
\* whatever the origin; InvalidOrigin is reported only for a stored credential.
\* A verification failure is reported only by a call that reached the primitive,
\* and a call that reports an earlier failure has not called the primitive and
\* has written nothing.
C39_FailurePrecedence ==
  [][\A r \in ReqIds :
       /\ Called(r, "reg") =>
            LET sid == req'[r].sid
                after == req'[r]
            IN /\ Unusable(sid, "registration") => after.outcome = "SessionInvalid"
               /\ (Usable(sid, "registration") /\ after.userId # sessions[sid].userId) =>
                    after.outcome = "UserMismatch"
               /\ after.outcome = "UserMismatch" => ~Unusable(sid, "registration")
               /\ after.outcome = "InvalidOrigin" =>
                    (~Unusable(sid, "registration") /\ after.userId = sessions[sid].userId)
               /\ after.pc = "reg_verify" =>
                    (/\ ~Unusable(sid, "registration")
                     /\ after.userId = sessions[sid].userId
                     /\ ~OriginRejected(after.origin, after.platform))
               /\ after.pc = "done" => (~after.calledPrim /\ ~after.wrote)
               /\ after.outcome # "VerificationFailed"
       /\ Called(r, "auth") =>
            /\ Unusable(req'[r].sid, "authentication") =>
                 (req'[r].pc = "done" /\ req'[r].outcome = "SessionInvalid")
            /\ req'[r].pc = "done" => (req'[r].outcome = "SessionInvalid" /\ ~req'[r].calledPrim)
       /\ (req[r].pc = "auth_getPasskeys" /\ req'[r].pc # "auth_getPasskeys") =>
            LET after == req'[r]
                found == FindPasskeys(getPasskeys(NoUser), after.credentialId)
                platform == IF req[r].chal.platform # "" THEN req[r].chal.platform ELSE "web"
            IN /\ found = {} => after.outcome = "CredentialNotFound"
               /\ after.outcome = "InvalidOrigin" => found # {}
               /\ after.pc = "auth_verify" =>
                    (found # {} /\ ~OriginRejected(after.origin, platform))
               /\ after.pc = "done" => (~after.calledPrim /\ ~after.wrote)
               /\ after.outcome # "VerificationFailed"
       /\ (req'[r].outcome = "VerificationFailed" /\ req[r].outcome # "VerificationFailed") =>
            (req[r].pc \in {"reg_verify", "auth_verify"} /\ req[r].calledPrim)]_vars

\* POST /register/complete on a session of another user with platform android:
\* the user does not match and the origin the route passes is not valid for
\* android either, and the answer is UserMismatch
C39_Witness ==
  \E r \in ReqIds :
    /\ req[r].kind = "reg" /\ req[r].pc = "done" /\ req[r].outcome = "UserMismatch"
    /\ req[r].body # Null
    /\ OriginRejected(RouteRequestOrigin, req[r].body.platform)
    /\ req[r].userId # req[r].sessUser

\* the step in which request r's saveUser writes the user record
SavesUser(r) == req[r].pc = "reg_saveUser_set" /\ req'[r].pc # "reg_saveUser_set"

\* C33: when registrationComplete has succeeded there is a user record under the
\* userId of the session it read that holds that session's username and
\* displayName; no step
\* removes a user record or changes its createdAt, and the saveUser of a
\* registration sets updatedAt to the time of the call.
C33_UserUpsertedCreatedAtKept ==
  [][/\ \A r \in ReqIds :
          (req'[r].kind = "reg" /\ req'[r].outcome = "ok" /\ req[r].outcome # "ok") =>
            LET sess == req[r].chal IN
            /\ sess.userId \in DOMAIN users'
            /\ users'[sess.userId].id = sess.userId
            /\ users'[sess.userId].username = sess.username
            /\ users'[sess.userId].displayName = sess.displayName
     /\ \A u \in DOMAIN users :
          u \in DOMAIN users' /\ users'[u].createdAt = users[u].createdAt
     /\ \A r \in ReqIds :
          SavesUser(r) => users'[req[r].chal.userId].updatedAt = now]_vars

\* u1 has registered twice, the second time later and under another name
C33_Witness ==
  /\ DOMAIN passkeys = {0, 1}
  /\ req["r1"].kind = "reg" /\ req["r1"].outcome = "ok"
  /\ "u1" \in DOMAIN users
  /\ users["u1"].createdAt = 0 /\ users["u1"].updatedAt > 0
  /\ users["u1"].username # passkeys[0].username

\* the stored sessions whose expiresAt is in the past
ExpiredSessions == {s \in DOMAIN sessions : sessions[s].expiresAt < now}

\* the step in which request r's sweep runs
Sweeps(r) == req[r].pc = "idle" /\ req'[r].kind = "cleanup" /\ req'[r].pc = "done"

\* C32: a sweep removes exactly the stored sessions whose expiresAt is in the past
\* and leaves every other session as it was, it reports true exactly when it
\* removed a session, and after it no stored session is expired while the clock
\* stands, so a second sweep at the same time changes nothing and reports false.
C32_SweepExactAndIdempotent ==
  [][\A r \in ReqIds :
       Sweeps(r) =>
         /\ DOMAIN sessions' = DOMAIN sessions \ ExpiredSessions
         /\ \A s \in DOMAIN sessions' : sessions'[s] = sessions[s]
         /\ (req'[r].outcome = "true") <=> (DOMAIN sessions' # DOMAIN sessions)
         /\ req'[r].outcome \in {"true", "false"}
         /\ ExpiredSessions' = {}
         /\ ExpiredSessions = {} => (sessions' = sessions /\ req'[r].outcome = "false")
         /\ \A q \in ReqIds \ {r} :
              (req[q].kind = "cleanup" /\ req[q].tmp.at = now) =>
                (sessions' = sessions /\ req'[r].outcome = "false")]_vars

\* the file store: a sweep removed an expired session and kept an unexpired one
\* and reported true, and a second sweep at the same time reported false
C32_Witness ==
  /\ req["r1"].kind = "cleanup" /\ req["r1"].outcome = "true"
  /\ req["r2"].kind = "cleanup" /\ req["r2"].outcome = "false"
  /\ req["r1"].tmp.at = now /\ req["r2"].tmp.at = now
  /\ DOMAIN sessions # {}
  /\ DOMAIN issued # DOMAIN sessions

\* C36: a deleted credential stays deleted: once a DELETE of a passkey has
\* answered success and a verifyAuthentication that had looked the same passkey
\* up has returned, the passkey is not in the store.
C36_DeletedStaysDeleted ==
  \A r, q \in ReqIds :
    (/\ req[q].kind = "delete" /\ req[q].pc = "done" /\ req[q].outcome = "ok"
     /\ req[r].kind = "auth" /\ req[r].outcome = "ok"
     /\ req[r].pk.id = req[q].pk.id) =>
      req[q].pk.id \notin DOMAIN passkeys

\* C37: every session a begin operation has returned is in the store for as long
\* as it has not expired and no completion has deleted it, whatever other
\* requests on other sessionIds are in flight.
C37_IssuedSessionsStay ==
  \A sid \in DOMAIN issued :
    (sid \notin succeeded /\ now <= issued[sid].expiresAt) =>
      (sid \in DOMAIN sessions /\ getChallenge(sid) # {Null})

StoreOps ==
  {"savePasskey", "getPasskeyById", "deletePasskey", "saveChallenge", "getChallenge",
   "deleteChallenge"}

\* the step in which request r's storage call is answered
StoreCall(r) == req[r].pc = "idle" /\ req'[r].pc = "done" /\ req'[r].kind \in StoreOps

\* C40: the two storage modules answer alike, by what the store holds: a get
\* returns the record exactly when one is stored under the id, a save returns
\* true and stores the record, a delete returns true exactly when a record with
\* that id was stored, and after a delete the id is not in the store (a get then
\* returns not-found); this for the passkey and for the session methods, with
\* KVStorage and with JSONStorage.
C40_BackendsAnswerAlike ==
  [][\A r \in ReqIds :
       StoreCall(r) =>
         LET op == req'[r].kind
             id == req'[r].tmp.id
             answer == req'[r].outcome
         IN /\ op = "getPasskeyById" => (answer = "record" <=> id \in DOMAIN passkeys)
            /\ op = "savePasskey" => (answer = "true" /\ id \in DOMAIN passkeys')
            /\ op = "deletePasskey" =>
                 (/\ answer = "true" <=> id \in DOMAIN passkeys
                  /\ id \notin DOMAIN passkeys')
            /\ op = "getChallenge" => (answer = "record" <=> id \in DOMAIN sessions)
            /\ op = "saveChallenge" => (answer = "true" /\ id \in DOMAIN sessions')
            /\ op = "deleteChallenge" =>
                 (/\ answer = "true" <=> id \in DOMAIN sessions
                  /\ id \notin DOMAIN sessions')]_vars

\* C31: a ceremony operation or a delegation that starts after an update has
\* completed works with the updated values: for every setting that a completed
\* update has set, the operation uses the value of the last such update (relying
\* party id, default origin, timeout; the sign-in credentials for the delegation).
C31_UpdatesAreReadThrough ==
  \A r \in ReqIds :
    (req[r].pc = "done" /\ req[r].outcome = "ok") =>
      /\ req[r].kind = "ceremony" =>
           \A k \in ConfigKeys :
             req[r].tmp.expected[k] # Null =>
               req[r].tmp.used[k] = req[r].tmp.expected[k].v
      /\ req[r].kind = "delegation" =>
           (req[r].tmp.expected.credentials # Null =>
              req[r].tmp.used.credentials = req[r].tmp.expected.credentials.v)

====
